---- MODULE Spec2Model ----
(***************************************************************************)
(* Model of the orchestration core of the voice assistant:                 *)
(*   - ConversationFlowManager   (orchestration/flow_manager.py)           *)
(*   - VoiceSessionManager       (voice/session_manager.py)                *)
(*   - VertexLiveClient          (voice/vertex_client.py, connection part) *)
(*   - VoiceOrchestrator         (orchestration/voice_orchestrator.py)     *)
(*                                                                         *)
(* The code is cooperative asyncio: a coroutine runs without interruption  *)
(* from one suspension point (an await that really yields: asyncio.sleep,  *)
(* a transport connect/close) to the next.  Each action below is one such  *)
(* uninterrupted block; a coroutine parked at a suspension point is a      *)
(* record in a bag of tasks.                                               *)
(***************************************************************************)
EXTENDS Integers, Sequences, FiniteSets, Bags, TLC

(* ----------------------------- bounds ---------------------------------- *)
\* a new user input is submitted while the tracked conversations hold fewer turns than this
MaxLen == 3
\* an interruption is requested while the tracked conversations count fewer than this
MaxIntr == 2
\* most coroutines of one component parked at a suspension point at once
MaxTasks == 2
\* the clock stops after this many ticks
MaxTime == 2
\* the session timeout (session_timeout_minutes), in clock ticks
SessionTimeout == 1
\* add_chunk is called while fewer chunks than this were added since the buffer was new or cleared
MaxAdds == 4
\* the agent stream yields at most this many fragments
MaxFragments == 4
\* process_audio_chunk is called while the live sessions have completed fewer calls than this
MaxChunks == 3
\* play_audio calls, drain threads started and input streams opened
MaxPlay == 3
MaxThreads == 2
MaxStreams == 2
\* blocks the microphone thread delivers
MaxCaptured == 2
\* error events a session's listener reports
MaxErrors == 1

(* ----------------------------- inputs ---------------------------------- *)
Sessions == {"s1", "s2"}
\* transcribed user inputs and agent responses
UserTexts == {"u1", "u2"}
AgentTexts == {"a1", "a2"}
Texts == UserTexts \cup AgentTexts
\* values of max_turns the manager is constructed with (the default is 50)
MaxTurnsChoices == {2, 50}
\* values of config.max_concurrent_sessions the orchestrator is configured with
MaxConcurrentChoices == {1, 2}
\* OrchestratorConfig defaults
max_conversation_turns == 50
default_max_concurrent_sessions == 10
\* VoiceSessionManager.__init__ default (the orchestrator does not override it)
max_reconnect_attempts == 3
\* StreamingPipelineManager.__init__ default: the max_size of its buffers
buffer_size == 1000
\* values of max_size a PipelineBuffer is constructed with
MaxSizeChoices == {1, 2}
\* _on_text_response: the least length for a sentence end or a paragraph break to count
sentence_min_size == 30
\* _on_text_response: min_buffer_size
min_buffer_size == 150
NoArg == "-"

VARIABLES
    \* ConversationFlowManager
    max_turns,            \* self.max_turns
    enable_interruption,  \* self.enable_interruption
    conversations,        \* self._conversations : session id -> ConversationContext
    flow_tasks,           \* bag of flow-manager coroutines parked at an asyncio.sleep
    \* VertexLiveClient, one per generated session id
    clients,              \* id -> [ws: self._websocket is set, is_connected: self._is_connected]
    \* VoiceSessionManager
    _sessions,            \* keys of self._sessions
    _session_states,      \* self._session_states : id -> [is_active, last_activity]
    reg_tasks,            \* bag of coroutines parked at a transport connect/close/send or a sleep
    reaper,               \* the _cleanup_expired_sessions task: position and locals
    used,                 \* ids uuid4 has generated so far
    now,                  \* datetime.now(), in ticks
    \* VoiceOrchestrator
    max_concurrent_sessions,  \* self.config.max_concurrent_sessions
    _active_sessions,     \* self._active_sessions
    \* StreamingPipelineManager
    pipeline_sessions,    \* keys of self._sessions of the pipeline manager
    pipeline_manager,     \* [buffer_size, _sessions: id -> PipelineBuffer, _metrics: id ->
                          \*  StreamingMetrics, _performance_alerts]
    summary,              \* what get_performance_summary returned last (at first: would return)
    \* PipelineBuffer (one buffer)
    buffer,               \* [max_size, chunks, total_bytes]
    \* VoiceOrchestrator._on_text_response (one invocation, its agent stream)
    text_buffer,          \* the local text_buffer: fragments not yet synthesized
    synthesized,          \* texts passed to tts_manager.synthesize so far, in order
    spoken,               \* audio passed to audio_io_manager.play_audio so far, in order
    reported,             \* agent texts passed to the conversation-turn callback, in order
    reported_user,        \* ids passed to the conversation-turn callback with a user turn
    stream,               \* "open" while the agent stream yields, then "ended", or
                          \* "failed" once an exception has ended the handler; before
                          \* that "none" (no invocation yet) and "input" (invocation
                          \* inside flow_manager.process_user_input)
    response_for,         \* the session_id of the invocation, once it has passed line 371
    \* AudioIOManager, its drain threads and the sound device
    audio_io_manager,     \* [_input_stream, _audio_callback, _is_capturing, _audio_buffer,
                          \*  _is_playing, _playback_thread]
    threads,              \* thread number -> [pc, full_audio] of _play_buffered_audio
    io_call,              \* the event loop's position inside play_audio or stop_playback
    sounddevice,          \* [streams: input streams open, active: those started, opened:
                          \*  streams opened so far, played: blocks handed to sd.play]
    scheduled,            \* ids whose audio_callback the microphone thread has submitted
                          \* to the event loop, in order
    \* observations (not program state)
    enqueued,             \* chunks passed to play_audio so far, in order
    stopped,              \* stop_playback has returned and play_audio was not called since
    destroyed,            \* ids that end_session has removed from self._sessions
    added,                \* chunks passed to add_chunk since the buffer was new or cleared
    yielded,              \* fragments the agent stream has yielded so far, in order
    completed,            \* id -> process_audio_chunk calls completed since initialize_session
    ended_calls,          \* id -> number of invocations of the registry's session-ended callback
    session_ended_calls,  \* id -> number of invocations of the orchestrator's session-ended callback
    error_calls,          \* id -> number of invocations of the registry's error callback
    lastCall              \* the last block that ran

\* the buffer and the response chunker
bufVars == <<buffer, added>>
chunkVars == <<text_buffer, synthesized, spoken, reported, reported_user, yielded, stream,
              response_for>>
pipeVars == <<pipeline_manager, summary, completed>>
audioVars == <<audio_io_manager, threads, io_call, sounddevice, scheduled, enqueued,
              stopped>>
auxVars == <<bufVars, chunkVars, pipeVars, audioVars, error_calls>>

regVars == <<clients, _sessions, _session_states, reg_tasks, reaper, used, now,
             max_concurrent_sessions, _active_sessions, pipeline_sessions,
             destroyed, ended_calls, session_ended_calls, auxVars>>

vars == <<max_turns, enable_interruption, conversations, flow_tasks, regVars, lastCall>>

\* the flow manager, the registry and the orchestrator
coreVars ==
    <<max_turns, enable_interruption, conversations, flow_tasks,
      clients, _sessions, _session_states, reg_tasks, reaper, used, now,
      max_concurrent_sessions, _active_sessions, pipeline_sessions,
      destroyed, ended_calls, session_ended_calls>>

(* ------------------------- ConversationTurn ---------------------------- *)
ConversationTurn(turn_id, speaker, content) ==
    [turn_id |-> turn_id, speaker |-> speaker, content |-> content, interrupted |-> FALSE]

(* ------------------------ ConversationContext -------------------------- *)
NewContext ==
    [state |-> "idle", turns |-> <<>>, current_turn_id |-> <<>>, interruption_count |-> 0]

\* faulty variant: the new turn is inserted at the front
add_turn_front(context, turn) == [context EXCEPT !.turns = <<turn>> \o @]

add_turn(context, turn) == [context EXCEPT !.turns = Append(@, turn)]

\* f"{session_id}_{len(context.turns)}"
TurnId(sid, context) == <<sid, Len(context.turns)>>

(* ---------------------- ConversationFlowManager ------------------------ *)
Call(op, sid, arg, ret) == [op |-> op, sid |-> sid, ret |-> ret]

RECURSIVE SumOver(_, _)
SumOver(f, S) ==
    IF S = {} THEN 0
    ELSE LET x == CHOOSE x \in S : TRUE IN f[x] + SumOver(f, S \ {x})

TotalTurns == SumOver([s \in DOMAIN conversations |-> Len(conversations[s].turns)],
                      DOMAIN conversations)
TotalInterruptions == SumOver([s \in DOMAIN conversations |-> conversations[s].interruption_count],
                              DOMAIN conversations)

Task(op, pc, sid, arg, live) == [op |-> op, pc |-> pc, sid |-> sid, arg |-> arg, live |-> live]

Park(tasks, t) == tasks (+) SetToBag({t})
Unpark(tasks, t) == tasks (-) SetToBag({t})

\* end_conversation drops the context object of sid: a coroutine that kept a
\* reference to it (process_user_input, line 196) now holds a detached object
Detach(tasks, sid) ==
    LET moved(t) == IF t.sid = sid THEN [t EXCEPT !.live = FALSE] ELSE t
        new == {moved(t) : t \in BagToSet(tasks)}
    IN  [n \in new |-> IF n.sid = sid
                       THEN CopiesIn(n, tasks) + CopiesIn([n EXCEPT !.live = TRUE], tasks)
                       ELSE CopiesIn(n, tasks)]

_transition_state(convs, sid, new_state) ==
    IF sid \notin DOMAIN convs THEN convs
    ELSE [convs EXCEPT ![sid].state = new_state]

Remove(convs, sid) == [s \in (DOMAIN convs) \ {sid} |-> convs[s]]

FlowInit ==
    /\ max_turns \in MaxTurnsChoices
    /\ enable_interruption \in BOOLEAN
    /\ conversations = <<>>
    /\ flow_tasks = EmptyBag
    /\ lastCall = Call("construct", NoArg, NoArg, "ok")

\* faulty variant: initializing a tracked id replaces its context with a new one
InitializeEffectResets(convs, sid) ==
    _transition_state([s \in (DOMAIN convs) \cup {sid} |->
                          IF s = sid THEN NewContext ELSE convs[s]],
                      sid, "idle")

\* initialize_conversation, lines 158-166: the effect on self._conversations
InitializeEffect(convs, sid) ==
    IF sid \in DOMAIN convs THEN convs
    ELSE _transition_state([s \in (DOMAIN convs) \cup {sid} |->
                               IF s = sid THEN NewContext ELSE convs[s]],
                           sid, "idle")

initialize_conversation(sid) ==
    /\ conversations' = InitializeEffect(conversations, sid)
    /\ lastCall' = Call("initialize_conversation", sid, NoArg,
                        IF sid \in DOMAIN conversations THEN "noop" ELSE "ok")
    /\ UNCHANGED <<max_turns, enable_interruption, flow_tasks, regVars>>

\* faulty variant: ending one conversation drops every context
EndConversationDropAll(convs, sid) ==
    IF sid \notin DOMAIN convs THEN convs ELSE <<>>

\* faulty variant: ending a conversation that is not tracked drops every context
EndConversationUnknownDropsAll(convs, sid) ==
    IF sid \notin DOMAIN convs THEN <<>> ELSE Remove(convs, sid)

\* end_conversation, lines 174-183: the effect on self._conversations
EndConversationEffect(convs, sid) ==
    IF sid \notin DOMAIN convs THEN convs ELSE Remove(convs, sid)

end_conversation(sid) ==
    /\ conversations' = EndConversationEffect(conversations, sid)
    /\ flow_tasks' = IF sid \in DOMAIN conversations THEN Detach(flow_tasks, sid) ELSE flow_tasks
    /\ lastCall' = Call("end_conversation", sid, NoArg,
                        IF sid \in DOMAIN conversations THEN "ok" ELSE "noop")
    /\ UNCHANGED <<max_turns, enable_interruption, regVars>>

\* faulty variant: the latest turn is flagged whoever spoke it
InterruptEffectAnySpeaker(convs, sid) ==
    LET context == convs[sid]
        n == Len(context.turns)
        marked == IF n > 0 THEN [context.turns EXCEPT ![n].interrupted = TRUE]
                  ELSE context.turns
    IN  _transition_state(
            [convs EXCEPT ![sid] = [context EXCEPT !.interruption_count = @ + 1,
                                                   !.turns = marked]],
            sid, "interrupted")

\* faulty variant: the interruption is not counted
InterruptEffectNoCount(convs, sid) ==
    LET context == convs[sid]
        n == Len(context.turns)
        marked == IF n > 0 /\ context.turns[n].speaker = "assistant"
                  THEN [context.turns EXCEPT ![n].interrupted = TRUE]
                  ELSE context.turns
    IN  _transition_state([convs EXCEPT ![sid] = [context EXCEPT !.turns = marked]],
                          sid, "interrupted")

\* handle_interruption, lines 299-309: up to the grace delay
InterruptEffect(convs, sid) ==
    LET context == convs[sid]
        n == Len(context.turns)
        marked == IF n > 0 /\ context.turns[n].speaker = "assistant"
                  THEN [context.turns EXCEPT ![n].interrupted = TRUE]
                  ELSE context.turns
    IN  _transition_state(
            [convs EXCEPT ![sid] = [context EXCEPT !.interruption_count = @ + 1,
                                                   !.turns = marked]],
            sid, "interrupted")

\* process_user_input, lines 206-230, up to the simulated processing delay.
\* live: the context captured at line 196 is still the tracked one.
\* (self._on_turn_complete is None: nothing in the program registers it.)
UserTurnEffect(convs, sid, user_input, live) ==
    LET c1 == _transition_state(convs, sid, "processing")
    IN  IF live
        THEN [c1 EXCEPT ![sid] =
                 [add_turn(c1[sid], ConversationTurn(TurnId(sid, c1[sid]), "user", user_input))
                     EXCEPT !.current_turn_id = TurnId(sid, c1[sid])]]
        ELSE c1

\* faulty variant: the assistant turn is recorded but the state is left at responding
AgentTurnEffectNoListen(convs, sid, agent_response) ==
    LET c1 == [convs EXCEPT ![sid] =
                  add_turn(convs[sid],
                           ConversationTurn(TurnId(sid, convs[sid]), "assistant", agent_response))]
    IN  IF Len(c1[sid].turns) >= max_turns THEN EndConversationEffect(c1, sid) ELSE c1

\* faulty variant: the conversation ends only when the turn count exceeds max_turns
AgentTurnEffectEndsAfterMax(convs, sid, agent_response) ==
    LET c1 == [convs EXCEPT ![sid] =
                  add_turn(convs[sid],
                           ConversationTurn(TurnId(sid, convs[sid]), "assistant", agent_response))]
    IN  IF Len(c1[sid].turns) > max_turns THEN EndConversationEffect(c1, sid)
        ELSE _transition_state(c1, sid, "listening")

\* process_agent_response, lines 254-279
AgentTurnEffect(convs, sid, agent_response) ==
    LET c1 == [convs EXCEPT ![sid] =
                  add_turn(convs[sid],
                           ConversationTurn(TurnId(sid, convs[sid]), "assistant", agent_response))]
    IN  IF Len(c1[sid].turns) >= max_turns THEN EndConversationEffect(c1, sid)
        ELSE _transition_state(c1, sid, "listening")

\* faulty variant: input is also accepted while the previous input is processed
AcceptsInputWhileProcessing(context) == context.state \in {"idle", "listening", "processing"}

AcceptsInput(context) == context.state \in {"idle", "listening"}

process_user_input(sid, user_input) ==
    /\ TotalTurns < MaxLen
    /\ IF sid \notin DOMAIN conversations
       THEN /\ lastCall' = Call("process_user_input", sid, user_input, "noop")
            /\ UNCHANGED <<conversations, flow_tasks>>
       ELSE IF AcceptsInput(conversations[sid])
       THEN /\ BagCardinality(flow_tasks) < MaxTasks
            /\ conversations' = UserTurnEffect(conversations, sid, user_input, TRUE)
            /\ flow_tasks' = Park(flow_tasks, Task("process_user_input", "sleep230", sid, NoArg, FALSE))
            /\ lastCall' = Call("process_user_input", sid, user_input, "suspended")
       ELSE IF enable_interruption /\ conversations[sid].state = "responding"
       THEN /\ BagCardinality(flow_tasks) < MaxTasks
            /\ TotalInterruptions < MaxIntr
            /\ conversations' = InterruptEffect(conversations, sid)
            /\ flow_tasks' = Park(flow_tasks, Task("process_user_input", "sleep316", sid, user_input, TRUE))
            /\ lastCall' = Call("process_user_input", sid, user_input, "interrupting")
       ELSE /\ lastCall' = Call("process_user_input", sid, user_input, "rejected")
            /\ UNCHANGED <<conversations, flow_tasks>>
    /\ UNCHANGED <<max_turns, enable_interruption, regVars>>

\* faulty variant: when the handle_interruption it called has returned,
\* process_user_input returns without recording the input
process_user_input_dropped_after_interruption(t) ==
    /\ BagIn(t, flow_tasks) /\ t.op = "process_user_input" /\ t.pc = "sleep316"
    /\ conversations' = _transition_state(conversations, t.sid, "listening")
    /\ flow_tasks' = Unpark(flow_tasks, t)
    /\ lastCall' = Call("process_user_input", t.sid, t.arg, "accepted")
    /\ UNCHANGED <<max_turns, enable_interruption, regVars>>

\* process_user_input resumes in the handle_interruption it called (line 317),
\* returns from it and runs lines 206-230
process_user_input_after_interruption(t) ==
    /\ BagIn(t, flow_tasks) /\ t.op = "process_user_input" /\ t.pc = "sleep316"
    /\ conversations' = UserTurnEffect(_transition_state(conversations, t.sid, "listening"),
                                       t.sid, t.arg, t.live)
    /\ flow_tasks' = Park(Unpark(flow_tasks, t),
                          Task("process_user_input", "sleep230", t.sid, NoArg, FALSE))
    /\ lastCall' = Call("process_user_input", t.sid, t.arg, "accepted")
    /\ UNCHANGED <<max_turns, enable_interruption, regVars>>

\* process_user_input resumes after the processing delay (line 231)
process_user_input_resume(t) ==
    /\ BagIn(t, flow_tasks) /\ t.op = "process_user_input" /\ t.pc = "sleep230"
    /\ conversations' = _transition_state(conversations, t.sid, "responding")
    /\ flow_tasks' = Unpark(flow_tasks, t)
    /\ lastCall' = Call("process_user_input", t.sid, NoArg, "returned")
    /\ UNCHANGED <<max_turns, enable_interruption, regVars>>

\* faulty variant: a response is accepted in whatever state the conversation is
process_agent_response_in_any_state(sid, agent_response) ==
    /\ IF sid \notin DOMAIN conversations
       THEN /\ lastCall' = Call("process_agent_response", sid, agent_response, "noop")
            /\ UNCHANGED <<conversations, flow_tasks>>
       ELSE /\ conversations' = AgentTurnEffect(conversations, sid, agent_response)
            /\ flow_tasks' = IF sid \in DOMAIN conversations' THEN flow_tasks
                             ELSE Detach(flow_tasks, sid)
            /\ lastCall' = Call("process_agent_response", sid, agent_response, "returned")
    /\ UNCHANGED <<max_turns, enable_interruption, regVars>>

process_agent_response(sid, agent_response) ==
    /\ IF sid \notin DOMAIN conversations
       THEN /\ lastCall' = Call("process_agent_response", sid, agent_response, "noop")
            /\ UNCHANGED <<conversations, flow_tasks>>
       ELSE IF conversations[sid].state # "responding"
       THEN /\ lastCall' = Call("process_agent_response", sid, agent_response, "rejected")
            /\ UNCHANGED <<conversations, flow_tasks>>
       ELSE /\ conversations' = AgentTurnEffect(conversations, sid, agent_response)
            /\ flow_tasks' = IF sid \in DOMAIN conversations' THEN flow_tasks
                             ELSE Detach(flow_tasks, sid)
            /\ lastCall' = Call("process_agent_response", sid, agent_response, "returned")
    /\ UNCHANGED <<max_turns, enable_interruption, regVars>>

\* faulty variant: the interruption is handled whatever the configuration says
handle_interruption_unconditional(sid) ==
    /\ IF sid \notin DOMAIN conversations
       THEN /\ lastCall' = Call("handle_interruption", sid, NoArg, "noop")
            /\ UNCHANGED <<conversations, flow_tasks>>
       ELSE /\ BagCardinality(flow_tasks) < MaxTasks
            /\ TotalInterruptions < MaxIntr
            /\ conversations' = InterruptEffect(conversations, sid)
            /\ flow_tasks' = Park(flow_tasks, Task("handle_interruption", "sleep316", sid, NoArg, FALSE))
            /\ lastCall' = Call("handle_interruption", sid, NoArg, "suspended")
    /\ UNCHANGED <<max_turns, enable_interruption, regVars>>

handle_interruption(sid) ==
    /\ IF sid \notin DOMAIN conversations
       THEN /\ lastCall' = Call("handle_interruption", sid, NoArg, "noop")
            /\ UNCHANGED <<conversations, flow_tasks>>
       ELSE IF ~enable_interruption
       THEN /\ lastCall' = Call("handle_interruption", sid, NoArg, "rejected")
            /\ UNCHANGED <<conversations, flow_tasks>>
       ELSE /\ BagCardinality(flow_tasks) < MaxTasks
            /\ TotalInterruptions < MaxIntr
            /\ conversations' = InterruptEffect(conversations, sid)
            /\ flow_tasks' = Park(flow_tasks, Task("handle_interruption", "sleep316", sid, NoArg, FALSE))
            /\ lastCall' = Call("handle_interruption", sid, NoArg, "suspended")
    /\ UNCHANGED <<max_turns, enable_interruption, regVars>>

\* handle_interruption resumes after the grace delay (line 317)
handle_interruption_resume(t) ==
    /\ BagIn(t, flow_tasks) /\ t.op = "handle_interruption" /\ t.pc = "sleep316"
    /\ conversations' = _transition_state(conversations, t.sid, "listening")
    /\ flow_tasks' = Unpark(flow_tasks, t)
    /\ lastCall' = Call("handle_interruption", t.sid, NoArg, "returned")
    /\ UNCHANGED <<max_turns, enable_interruption, regVars>>

FlowTaskSpace ==
    [op : {"process_user_input", "handle_interruption"}, pc : {"sleep230", "sleep316"},
     sid : Sessions, arg : Texts \cup {NoArg}, live : BOOLEAN]

\* a call of the public API starts, on one of the session ids in ids
FlowCall(ids) ==
    \/ \E sid \in ids : initialize_conversation(sid)
    \/ \E sid \in ids : end_conversation(sid)
    \/ \E sid \in ids, u \in UserTexts : process_user_input(sid, u)
    \/ \E sid \in ids, a \in AgentTexts : process_agent_response(sid, a)
    \/ \E sid \in ids : handle_interruption(sid)

\* a parked coroutine resumes
FlowResume ==
    \/ \E t \in FlowTaskSpace : process_user_input_after_interruption(t)
    \/ \E t \in FlowTaskSpace : process_user_input_resume(t)
    \/ \E t \in FlowTaskSpace : handle_interruption_resume(t)

(* ============ VertexLiveClient / VoiceSessionManager / VoiceOrchestrator ============ *)

\* a coroutine of the registry or the orchestrator parked at a suspension point
RegTask(op, pc, sid, attempt, caller) ==
    [op |-> op, pc |-> pc, sid |-> sid, attempt |-> attempt, caller |-> caller]

\* the part of the state that the blocks below read and write, as one record
RegState ==
    [sessions |-> _sessions, states |-> _session_states, clients |-> clients,
     active |-> _active_sessions, pipe |-> pipeline_sessions,
     convs |-> conversations, tasks |-> flow_tasks,
     ended |-> ended_calls, notified |-> session_ended_calls, destroyed |-> destroyed]

Assign(R) ==
    /\ _sessions' = R.sessions
    /\ _session_states' = R.states
    /\ clients' = R.clients
    /\ _active_sessions' = R.active
    /\ pipeline_sessions' = R.pipe
    /\ conversations' = R.convs
    /\ flow_tasks' = R.tasks
    /\ ended_calls' = R.ended
    /\ session_ended_calls' = R.notified
    /\ destroyed' = R.destroyed

(* --------------------------- VertexLiveClient -------------------------- *)
NewClient == [ws |-> FALSE, is_connected |-> FALSE]

\* connect, lines 80-93, once websockets.connect and the initial configuration are through
Connected(R, sid) == [R EXCEPT !.clients[sid] = [ws |-> TRUE, is_connected |-> TRUE]]

\* disconnect, lines 103-108, after websocket.close() (or with no websocket set)
Disconnected(R, sid) == [R EXCEPT !.clients[sid] = [ws |-> FALSE, is_connected |-> FALSE]]

(* ---------------------------- SessionState ----------------------------- *)
NewSessionState(t) == [is_active |-> TRUE, last_activity |-> t]

\* faulty variant: a session is expired as soon as its idle time reaches the timeout
is_expired_at_timeout(state, t) == t - state.last_activity >= SessionTimeout

\* SessionState.is_expired, with datetime.now() = t
is_expired(state, t) == t - state.last_activity > SessionTimeout

update_activity(states, sid, t) ==
    IF sid \in DOMAIN states THEN [states EXCEPT ![sid].last_activity = t] ELSE states

(* ------------------- VoiceOrchestrator.end_conversation ---------------- *)
\* lines 205-208: flow_manager.end_conversation and pipeline_manager.cleanup_session
OrchEndHead(R, sid) ==
    [R EXCEPT !.convs = EndConversationEffect(@, sid),
              !.tasks = IF sid \in DOMAIN R.convs THEN Detach(@, sid) ELSE @,
              !.pipe = @ \ {sid}]

\* lines 214-220: the id leaves self._active_sessions and self._on_session_ended is invoked
OrchEndTail(R, sid) == [R EXCEPT !.active = @ \ {sid}, !.notified[sid] = @ + 1]

\* _on_voice_session_ended: the registry's session-ended callback.  The nested
\* end_conversation does not suspend: its end_session finds the id gone and returns.
_on_voice_session_ended(R, sid) ==
    IF sid \in R.active THEN OrchEndTail(OrchEndHead(R, sid), sid) ELSE R

(* ----------------------- VoiceSessionManager.end_session --------------- *)
\* faulty variant: the callback is invoked even when the removal from the map fails
EndSessionTailAlwaysNotifies(R, sid) ==
    LET R1 == [R EXCEPT !.states = IF sid \in DOMAIN @
                                   THEN [@ EXCEPT ![sid].is_active = FALSE] ELSE @]
        R2 == [R1 EXCEPT !.sessions = @ \ {sid},
                         !.destroyed = @ \cup {sid},
                         !.ended[sid] = @ + 1]
    IN  _on_voice_session_ended(R2, sid)

\* lines 195-212, after client.disconnect(): mark inactive, remove, notify.  When the
\* id has left the map meanwhile, del raises KeyError, which the except clause logs.
EndSessionTail(R, sid) ==
    LET R1 == [R EXCEPT !.states = IF sid \in DOMAIN @
                                   THEN [@ EXCEPT ![sid].is_active = FALSE] ELSE @]
        R2 == [R1 EXCEPT !.sessions = @ \ {sid},
                         !.destroyed = @ \cup {sid},
                         !.ended[sid] = @ + 1]
    IN  IF sid \in R.sessions THEN _on_voice_session_ended(R2, sid) ELSE R1

\* lines 186-193, up to the first suspension: parked is true when the coroutine
\* waits for websocket.close(); otherwise end_session has run to its end
EndSessionBegin(R, sid) ==
    IF sid \notin R.sessions THEN [r |-> R, parked |-> FALSE, ret |-> "noop"]
    ELSE IF R.clients[sid].ws THEN [r |-> R, parked |-> TRUE, ret |-> "suspended"]
    ELSE [r |-> EndSessionTail(Disconnected(R, sid), sid), parked |-> FALSE, ret |-> "returned"]

RegInit ==
    /\ clients = [s \in Sessions |-> NewClient]
    /\ _sessions = {}
    /\ _session_states = <<>>
    /\ reg_tasks = EmptyBag
    /\ reaper = [pc |-> "sleep", expired |-> {}, todo |-> <<>>]
    /\ used = {}
    /\ now = 0
    /\ _active_sessions = {}
    /\ pipeline_sessions = {}
    /\ destroyed = {}
    /\ ended_calls = [s \in Sessions |-> 0]
    /\ session_ended_calls = [s \in Sessions |-> 0]

\* what a block of the registry or the orchestrator never writes
RegFrame == UNCHANGED <<max_turns, enable_interruption, max_concurrent_sessions, auxVars>>

\* faulty variant: the limit is reached only once the count exceeds the maximum
LimitExceeded(active) == Cardinality(active) > max_concurrent_sessions

\* start_conversation, line 161
LimitReached(active) == Cardinality(active) >= max_concurrent_sessions

\* VoiceOrchestrator.start_conversation, lines 158-166 and create_session, lines 131-153:
\* up to client.connect().  uuid4 draws the new id from ids.
start_conversation(ids) ==
    /\ IF LimitReached(_active_sessions)
       THEN /\ lastCall' = Call("start_conversation", NoArg, NoArg, "raised")
            /\ UNCHANGED <<clients, reg_tasks, used>>
       ELSE \E sid \in ids \ used :
            /\ BagCardinality(reg_tasks) < MaxTasks
            /\ used' = used \cup {sid}
            /\ clients' = [clients EXCEPT ![sid] = NewClient]
            /\ reg_tasks' = Park(reg_tasks, RegTask("start_conversation", "connect", sid, 0, NoArg))
            /\ lastCall' = Call("start_conversation", sid, NoArg, "suspended")
    /\ UNCHANGED <<_sessions, _session_states, reaper, now, _active_sessions,
                   pipeline_sessions, destroyed, ended_calls, session_ended_calls, conversations, flow_tasks>>
    /\ RegFrame

\* create_session, lines 156-174 and start_conversation, lines 169-187, after connect()
StartedEffect(R, sid, t) ==
    LET R1 == Connected(R, sid)
    IN  [R1 EXCEPT !.sessions = @ \cup {sid},
                   !.states = [s \in (DOMAIN @) \cup {sid} |->
                                  IF s = sid THEN NewSessionState(t) ELSE @[s]],
                   !.convs = InitializeEffect(@, sid),
                   !.pipe = @ \cup {sid},
                   !.active = @ \cup {sid}]

\* connect() returns, or raises (create_session, lines 176-178; start_conversation 189-191)
start_conversation_connected(t, ok) ==
    /\ BagIn(t, reg_tasks) /\ t.op = "start_conversation" /\ t.pc = "connect"
    /\ Assign(IF ok THEN StartedEffect(RegState, t.sid, now) ELSE RegState)
    /\ reg_tasks' = Unpark(reg_tasks, t)
    /\ lastCall' = Call("start_conversation", t.sid, NoArg, IF ok THEN "returned" ELSE "raised")
    /\ UNCHANGED <<reaper, used, now>>
    /\ RegFrame

\* VoiceOrchestrator.end_conversation, lines 199-211, up to websocket.close()
VoiceOrchestrator_end_conversation(sid) ==
    /\ IF sid \notin _active_sessions
       THEN /\ Assign(RegState)
            /\ UNCHANGED reg_tasks
            /\ lastCall' = Call("VoiceOrchestrator.end_conversation", sid, NoArg, "noop")
       ELSE LET b == EndSessionBegin(OrchEndHead(RegState, sid), sid)
            IN  IF b.parked
                THEN /\ BagCardinality(reg_tasks) < MaxTasks
                     /\ Assign(b.r)
                     /\ reg_tasks' = Park(reg_tasks, RegTask("end_session", "close", sid, 0,
                                                             "VoiceOrchestrator.end_conversation"))
                     /\ lastCall' = Call("VoiceOrchestrator.end_conversation", sid, NoArg, "suspended")
                ELSE /\ Assign(OrchEndTail(b.r, sid))
                     /\ UNCHANGED reg_tasks
                     /\ lastCall' = Call("VoiceOrchestrator.end_conversation", sid, NoArg, "returned")
    /\ UNCHANGED <<reaper, used, now>>
    /\ RegFrame

\* VoiceSessionManager.end_session called directly, lines 186-193
end_session(sid) ==
    /\ LET b == EndSessionBegin(RegState, sid)
       IN  /\ Assign(b.r)
           /\ lastCall' = Call("end_session", sid, NoArg, b.ret)
           /\ IF b.parked
              THEN /\ BagCardinality(reg_tasks) < MaxTasks
                   /\ reg_tasks' = Park(reg_tasks, RegTask("end_session", "close", sid, 0, "end_session"))
              ELSE UNCHANGED reg_tasks
    /\ UNCHANGED <<reaper, used, now>>
    /\ RegFrame

\* end_session resumes after websocket.close() and runs to its end; its caller, when
\* that is VoiceOrchestrator.end_conversation, then runs lines 214-220
end_session_resume(t) ==
    /\ BagIn(t, reg_tasks) /\ t.op = "end_session" /\ t.pc = "close"
    /\ LET R1 == EndSessionTail(Disconnected(RegState, t.sid), t.sid)
       IN  Assign(IF t.caller = "VoiceOrchestrator.end_conversation"
                  THEN OrchEndTail(R1, t.sid) ELSE R1)
    /\ reg_tasks' = Unpark(reg_tasks, t)
    /\ lastCall' = Call(t.caller, t.sid, NoArg,
                        IF t.sid \in _sessions THEN "returned" ELSE "logged")
    /\ UNCHANGED <<reaper, used, now>>
    /\ RegFrame

(* ------------- _handle_connection_error / VertexLiveClient.reconnect --------- *)
\* reconnect, lines 406-409, one attempt up to its first suspension: with a websocket
\* set the coroutine waits for close(); otherwise it sleeps retry_delay and connects
ReconnectAttempt(R, sid, attempt) ==
    IF R.clients[sid].ws
    THEN [r |-> R, parks |-> {RegTask("reconnect", "close", sid, attempt, NoArg)}]
    ELSE [r |-> Disconnected(R, sid),
          parks |-> {RegTask("reconnect", "connect", sid, attempt, NoArg)}]

\* _handle_connection_error, lines 338-347: nothing to do for an id that is not in the
\* map, otherwise the first reconnection attempt starts
HandleConnectionError(R, sid) ==
    IF sid \notin R.sessions THEN [r |-> R, parks |-> {}]
    ELSE ReconnectAttempt(R, sid, 0)

\* a block that ends in _handle_connection_error: the state it leaves and the
\* coroutine it parks (parks holds none or one)
Continue(b, old, op, sid, ret) ==
    /\ Assign(b.r)
    /\ reg_tasks' = old (+) SetToBag(b.parks)
    /\ lastCall' = Call(op, sid, NoArg, IF b.parks = {} THEN ret ELSE "reconnecting")

\* VoiceOrchestrator.send_audio_chunk, lines 232-236, and VoiceSessionManager.
\* send_audio_chunk, lines 224-228, up to websocket.send()
send_audio_chunk(sid) ==
    /\ BagCardinality(reg_tasks) < MaxTasks
    /\ IF sid \notin _active_sessions \/ sid \notin _sessions \/ sid \notin DOMAIN _session_states
       THEN /\ Assign(RegState)
            /\ UNCHANGED reg_tasks
            /\ lastCall' = Call("send_audio_chunk", sid, NoArg, "raised")
       ELSE IF ~clients[sid].is_connected \/ ~clients[sid].ws
       THEN Continue(HandleConnectionError(RegState, sid), reg_tasks,
                     "send_audio_chunk", sid, "returned")
       ELSE /\ Assign(RegState)
            /\ reg_tasks' = Park(reg_tasks, RegTask("send_audio_chunk", "send", sid, 0, NoArg))
            /\ lastCall' = Call("send_audio_chunk", sid, NoArg, "suspended")
    /\ UNCHANGED <<reaper, used, now>>
    /\ RegFrame

\* websocket.send() returns (lines 229-230) or raises (lines 232-234).  It can only
\* return while the websocket is still open.
send_audio_chunk_resume(t, ok) ==
    /\ BagIn(t, reg_tasks) /\ t.op = "send_audio_chunk" /\ t.pc = "send"
    /\ ok => clients[t.sid].ws
    /\ IF ok
       THEN Continue([r |-> [RegState EXCEPT !.states = update_activity(@, t.sid, now)],
                      parks |-> {}],
                     Unpark(reg_tasks, t), "send_audio_chunk", t.sid, "returned")
       ELSE Continue(HandleConnectionError(RegState, t.sid), Unpark(reg_tasks, t),
                     "send_audio_chunk", t.sid, "returned")
    /\ UNCHANGED <<reaper, used, now>>
    /\ RegFrame

\* reconnect resumes after websocket.close() (disconnect, lines 104-108) and sleeps
\* retry_delay before it connects
reconnect_closed(t) ==
    /\ BagIn(t, reg_tasks) /\ t.op = "reconnect" /\ t.pc = "close"
    /\ Assign(Disconnected(RegState, t.sid))
    /\ reg_tasks' = Park(Unpark(reg_tasks, t), [t EXCEPT !.pc = "connect"])
    /\ lastCall' = Call("reconnect", t.sid, NoArg, "suspended")
    /\ UNCHANGED <<reaper, used, now>>
    /\ RegFrame

\* connect() returns in reconnect (line 410): _handle_connection_error starts a
\* listener (line 350), which changes no state
reconnect_connected(t) ==
    /\ BagIn(t, reg_tasks) /\ t.op = "reconnect" /\ t.pc = "connect"
    /\ Assign(Connected(RegState, t.sid))
    /\ reg_tasks' = Unpark(reg_tasks, t)
    /\ lastCall' = Call("reconnect", t.sid, NoArg, "reconnected")
    /\ UNCHANGED <<reaper, used, now>>
    /\ RegFrame

\* connect() raises in reconnect (lines 413-416): back off before the next attempt, or
\* give up (lines 418-419), in which case _handle_connection_error ends the session
\* (lines 352-353)
reconnect_failed(t) ==
    /\ BagIn(t, reg_tasks) /\ t.op = "reconnect" /\ t.pc = "connect"
    /\ IF t.attempt < max_reconnect_attempts - 1
       THEN /\ Assign(RegState)
            /\ reg_tasks' = Park(Unpark(reg_tasks, t), [t EXCEPT !.pc = "backoff"])
            /\ lastCall' = Call("reconnect", t.sid, NoArg, "suspended")
       ELSE LET b == EndSessionBegin(RegState, t.sid)
            IN  /\ Assign(b.r)
                /\ reg_tasks' = IF b.parked
                                THEN Park(Unpark(reg_tasks, t),
                                          RegTask("end_session", "close", t.sid, 0,
                                                  "_handle_connection_error"))
                                ELSE Unpark(reg_tasks, t)
                /\ lastCall' = Call("_handle_connection_error", t.sid, NoArg, b.ret)
    /\ UNCHANGED <<reaper, used, now>>
    /\ RegFrame

\* the back-off sleep is over (line 416): the next attempt starts
reconnect_backoff_over(t) ==
    /\ BagIn(t, reg_tasks) /\ t.op = "reconnect" /\ t.pc = "backoff"
    /\ LET b == ReconnectAttempt(RegState, t.sid, t.attempt + 1)
       IN  /\ Assign(b.r)
           /\ reg_tasks' = Unpark(reg_tasks, t) (+) SetToBag(b.parks)
    /\ lastCall' = Call("reconnect", t.sid, NoArg, "suspended")
    /\ UNCHANGED <<reaper, used, now>>
    /\ RegFrame

(* ----------------------- _cleanup_expired_sessions --------------------- *)
Perms(S) ==
    {f \in [1..Cardinality(S) -> S] : \A i, j \in 1..Cardinality(S) : i # j => f[i] # f[j]}

\* lines 405-407: end the expired sessions one after the other, until an end_session
\* has to wait for websocket.close()
RECURSIVE ReaperLoop(_, _)
ReaperLoop(R, todo) ==
    IF todo = <<>> THEN [r |-> R, todo |-> todo]
    ELSE LET b == EndSessionBegin(R, Head(todo))
         IN  IF b.parked THEN [r |-> R, todo |-> todo]
             ELSE ReaperLoop(b.r, Tail(todo))

\* lines 410-412: the state entries of the expired sessions are deleted
ReaperFinish(R, expired) ==
    [R EXCEPT !.states = [s \in (DOMAIN @) \ expired |-> @[s]]]

\* the loop has gone as far as l: the reaper waits in an end_session, or finishes the
\* cycle and sleeps (line 415)
ReaperContinue(l, expired) ==
    IF l.todo # <<>>
    THEN /\ Assign(l.r)
         /\ reaper' = [pc |-> "close", expired |-> expired, todo |-> l.todo]
         /\ lastCall' = Call("_cleanup_expired_sessions", NoArg, NoArg, "suspended")
    ELSE /\ Assign(ReaperFinish(l.r, expired))
         /\ reaper' = [pc |-> "sleep", expired |-> expired, todo |-> <<>>]
         /\ lastCall' = Call("_cleanup_expired_sessions", NoArg, NoArg, "cycle_done")

\* the scan of lines 401-403
ExpiredSessions(states, t) == {s \in DOMAIN states : is_expired(states[s], t)}

\* the reaper wakes up and starts a cycle (lines 399-407)
_cleanup_expired_sessions ==
    /\ reaper.pc = "sleep"
    /\ LET expired == ExpiredSessions(_session_states, now)
       IN  \E order \in Perms(expired) :
               ReaperContinue(ReaperLoop(RegState, order), expired)
    /\ UNCHANGED <<reg_tasks, used, now>>
    /\ RegFrame

\* the end_session the reaper waits in resumes after websocket.close()
_cleanup_expired_sessions_resume ==
    /\ reaper.pc = "close"
    /\ LET sid == Head(reaper.todo)
           R1 == EndSessionTail(Disconnected(RegState, sid), sid)
       IN  ReaperContinue(ReaperLoop(R1, Tail(reaper.todo)), reaper.expired)
    /\ UNCHANGED <<reg_tasks, used, now>>
    /\ RegFrame

(* ------------------------------ environment ---------------------------- *)
\* time passes
Tick ==
    /\ now < MaxTime
    /\ now' = now + 1
    /\ lastCall' = Call("clock", NoArg, NoArg, "tick")
    /\ UNCHANGED <<clients, _sessions, _session_states, reg_tasks, reaper, used,
                   _active_sessions, pipeline_sessions, destroyed, ended_calls, session_ended_calls,
                   conversations, flow_tasks>>
    /\ RegFrame

\* _handle_audio_response, lines 362-365: the listener of a registered session
\* receives a response
_handle_audio_response(sid) ==
    /\ sid \in _sessions /\ clients[sid].ws
    /\ _session_states' = update_activity(_session_states, sid, now)
    /\ lastCall' = Call("_handle_audio_response", sid, NoArg, "returned")
    /\ UNCHANGED <<clients, _sessions, reg_tasks, reaper, used, now,
                   _active_sessions, pipeline_sessions, destroyed, ended_calls, session_ended_calls,
                   conversations, flow_tasks>>
    /\ RegFrame

\* VertexLiveClient._handle_response, lines 327-330, and VoiceSessionManager.
\* _handle_error, lines 385-393: handling a message of the listener raises, and the
\* registry's error callback is invoked with the id of the session
_handle_error(sid) ==
    /\ sid \in _sessions /\ clients[sid].ws
    /\ error_calls[sid] < MaxErrors
    /\ error_calls' = [error_calls EXCEPT ![sid] = @ + 1]
    /\ lastCall' = Call("_handle_error", sid, NoArg, "returned")
    /\ UNCHANGED <<coreVars, bufVars, chunkVars, pipeVars, audioVars>>

RegTaskSpace ==
    [op : {"start_conversation", "end_session", "reconnect", "send_audio_chunk"},
     pc : {"connect", "close", "send", "backoff"},
     sid : Sessions, attempt : 0..(max_reconnect_attempts - 1),
     caller : {NoArg, "end_session", "VoiceOrchestrator.end_conversation",
               "_handle_connection_error"}]

\* a call of the public API starts, on one of the session ids in ids
OrchCall(ids) ==
    \/ start_conversation(ids)
    \/ \E sid \in ids : VoiceOrchestrator_end_conversation(sid)
    \/ \E sid \in ids : end_session(sid)

\* a coroutine parked in start_conversation or end_session resumes
OrchResume ==
    \/ \E t \in RegTaskSpace, ok \in BOOLEAN : start_conversation_connected(t, ok)
    \/ \E t \in RegTaskSpace : end_session_resume(t)

\* the reaper runs, time passes, a response arrives
Background(ids) ==
    \/ _cleanup_expired_sessions
    \/ _cleanup_expired_sessions_resume
    \/ Tick
    \/ \E sid \in ids : _handle_audio_response(sid)

\* audio is sent, the transport fails and is reconnected
Transport(ids) ==
    \/ \E sid \in ids : send_audio_chunk(sid)
    \/ \E t \in RegTaskSpace, ok \in BOOLEAN : send_audio_chunk_resume(t, ok)
    \/ \E t \in RegTaskSpace : reconnect_closed(t)
    \/ \E t \in RegTaskSpace : reconnect_connected(t)
    \/ \E t \in RegTaskSpace : reconnect_failed(t)
    \/ \E t \in RegTaskSpace : reconnect_backoff_over(t)

(* ------------- interrupt_conversation / start_audio_capture ------------ *)
\* VoiceOrchestrator.interrupt_conversation, lines 244-259: an id that is not active is
\* logged; otherwise flow_manager.handle_interruption runs up to its grace delay (or
\* returns at once for an untracked id or with interruption disabled), and
\* pipeline_manager.handle_interruption, which writes nothing but the audio buffer
\* of the session, follows it
interrupt_conversation(sid) ==
    /\ IF sid \notin _active_sessions
       THEN /\ Assign(RegState)
            /\ lastCall' = Call("interrupt_conversation", sid, NoArg, "noop")
       ELSE IF sid \notin DOMAIN conversations \/ ~enable_interruption
       THEN /\ Assign(RegState)
            /\ lastCall' = Call("interrupt_conversation", sid, NoArg, "returned")
       ELSE /\ BagCardinality(flow_tasks) < MaxTasks
            /\ TotalInterruptions < MaxIntr
            /\ Assign([RegState EXCEPT
                          !.convs = InterruptEffect(@, sid),
                          !.tasks = Park(@, Task("handle_interruption", "sleep316", sid,
                                                 NoArg, FALSE))])
            /\ lastCall' = Call("interrupt_conversation", sid, NoArg, "suspended")
    /\ UNCHANGED <<reg_tasks, reaper, used, now>>
    /\ RegFrame

\* VoiceOrchestrator.start_audio_capture, lines 295-315: ValueError for an id that is
\* not active; otherwise the microphone callback is installed, whose calls are the
\* send_audio_chunk steps
start_audio_capture(sid) ==
    /\ Assign(RegState)
    /\ lastCall' = Call("start_audio_capture", sid, NoArg,
                        IF sid \notin _active_sessions THEN "raised" ELSE "returned")
    /\ UNCHANGED <<reg_tasks, reaper, used, now>>
    /\ RegFrame

\* the calls of the orchestrator's API that take the id of a conversation
Boundary(ids) ==
    \/ \E sid \in ids : VoiceOrchestrator_end_conversation(sid)
    \/ \E sid \in ids : interrupt_conversation(sid)
    \/ \E t \in FlowTaskSpace : handle_interruption_resume(t)
    \/ \E sid \in ids : start_audio_capture(sid)

(* ============================ PipelineBuffer ============================ *)
\* audio chunks, as byte strings
AudioChunks == {<<0>>, <<1>>, <<0, 1>>}

NewBuffer(max_size) == [max_size |-> max_size, chunks |-> <<>>, total_bytes |-> 0]

\* faulty variant: a full buffer evicts its newest chunk
add_chunk_evicting_newest(buf, chunk) ==
    LET b1 == IF Len(buf.chunks) >= buf.max_size
              THEN [buf EXCEPT !.chunks = SubSeq(@, 1, Len(@) - 1),
                               !.total_bytes = @ - Len(buf.chunks[Len(buf.chunks)])]
              ELSE buf
    IN  [b1 EXCEPT !.chunks = Append(@, chunk), !.total_bytes = @ + Len(chunk)]

\* PipelineBuffer.add_chunk (max_size >= 1, so that a full buffer is never empty)
add_chunk(buf, chunk) ==
    LET b1 == IF Len(buf.chunks) >= buf.max_size
              THEN [buf EXCEPT !.chunks = Tail(@),
                               !.total_bytes = @ - Len(Head(buf.chunks))]
              ELSE buf
    IN  [b1 EXCEPT !.chunks = Append(@, chunk), !.total_bytes = @ + Len(chunk)]

\* faulty variant: the chunks are dropped but the byte count is kept
clear_keeping_bytes(buf) == [buf EXCEPT !.chunks = <<>>]

\* PipelineBuffer.clear
clear(buf) == [buf EXCEPT !.chunks = <<>>, !.total_bytes = 0]

\* what a block of the buffer never writes
BufferFrame == UNCHANGED <<coreVars, chunkVars, pipeVars, audioVars, error_calls>>

buffer_add_chunk(chunk) ==
    /\ Len(added) < MaxAdds
    /\ buffer' = add_chunk(buffer, chunk)
    /\ added' = Append(added, chunk)
    /\ lastCall' = Call("add_chunk", NoArg, NoArg, "returned")
    /\ BufferFrame

buffer_clear ==
    /\ buffer' = clear(buffer)
    /\ added' = <<>>
    /\ lastCall' = Call("clear", NoArg, NoArg, "returned")
    /\ BufferFrame

(* ======================== StreamingPipelineManager ====================== *)
\* audio_data of process_audio_chunk: an empty chunk and chunks of one and two bytes
PipelineChunks == {<<>>, <<0>>, <<0, 1>>}

\* StreamingMetrics, lines 19-28: the counters (latency and throughput samples are
\* wall-clock measurements and are left out)
NewMetrics == [total_chunks_processed |-> 0, error_count |-> 0]

\* StreamingPipelineManager.__init__, lines 111-133; _performance_alerts as the set of
\* session ids an alert was raised for
NewPipelineManager(size) ==
    [buffer_size |-> size, _sessions |-> <<>>, _metrics |-> <<>>, _performance_alerts |-> {}]

Put(f, k, v) == [x \in (DOMAIN f) \cup {k} |-> IF x = k THEN v ELSE f[x]]

\* initialize_session, lines 177-187
InitializeSessionEffect(pm, sid) ==
    IF sid \in DOMAIN pm._sessions THEN pm
    ELSE [pm EXCEPT !._sessions = Put(@, sid, NewBuffer(pm.buffer_size)),
                    !._metrics = Put(@, sid, NewMetrics)]

\* cleanup_session, lines 193-215 (self._processing_tasks is never written, so there
\* is no task to cancel)
CleanupSessionEffect(pm, sid) ==
    IF sid \notin DOMAIN pm._sessions THEN pm
    ELSE [pm EXCEPT !._sessions = Remove(@, sid), !._metrics = Remove(@, sid)]

\* process_audio_chunk, lines 226-246: _process_chunk never suspends, so the block
\* runs from add_chunk to the metrics update without interruption
ProcessAudioChunkEffect(pm, sid, audio_data) ==
    IF sid \notin DOMAIN pm._sessions THEN pm
    ELSE [pm EXCEPT !._sessions[sid] = add_chunk(@, audio_data),
                    !._metrics[sid].total_chunks_processed = @ + 1]

\* faulty variant: the interruption also resets the counters of the session
PipelineInterruptionEffectResetsMetrics(pm, sid) ==
    IF sid \notin DOMAIN pm._sessions THEN pm
    ELSE [pm EXCEPT !._sessions[sid] = clear(@), !._metrics[sid] = NewMetrics]

\* StreamingPipelineManager.handle_interruption, lines 283-301
PipelineInterruptionEffect(pm, sid) ==
    IF sid \notin DOMAIN pm._sessions THEN pm
    ELSE [pm EXCEPT !._sessions[sid] = clear(@)]

\* faulty variant: the chunks are counted from the buffers
PerformanceSummaryFromBuffers(pm) ==
    [active_sessions |-> Cardinality(DOMAIN pm._sessions),
     total_chunks_processed |->
         SumOver([s \in DOMAIN pm._sessions |-> Len(pm._sessions[s].chunks)],
                 DOMAIN pm._sessions),
     total_errors |-> 0]

\* get_performance_summary, lines 431-461: the counts (the latency and throughput
\* statistics are computed from the samples left out above)
PerformanceSummary(pm) ==
    IF DOMAIN pm._metrics = {}
    THEN [active_sessions |-> 0, total_chunks_processed |-> 0, total_errors |-> 0]
    ELSE [active_sessions |-> Cardinality(DOMAIN pm._sessions),
          total_chunks_processed |->
              SumOver([s \in DOMAIN pm._metrics |-> pm._metrics[s].total_chunks_processed],
                      DOMAIN pm._metrics),
          total_errors |->
              SumOver([s \in DOMAIN pm._metrics |-> pm._metrics[s].error_count],
                      DOMAIN pm._metrics)]

\* what a block of the pipeline manager never writes
PipelineFrame ==
    UNCHANGED <<max_turns, enable_interruption, conversations, flow_tasks,
                clients, _sessions, _session_states, reg_tasks, reaper, used, now,
                max_concurrent_sessions, _active_sessions, destroyed, ended_calls, session_ended_calls,
                bufVars, chunkVars, audioVars, error_calls>>

\* the pipeline manager becomes pm
PipelineAssign(pm) ==
    /\ pipeline_manager' = pm
    /\ pipeline_sessions' = DOMAIN pm._sessions

initialize_session(sid) ==
    /\ PipelineAssign(InitializeSessionEffect(pipeline_manager, sid))
    /\ completed' = IF sid \in DOMAIN pipeline_manager._sessions THEN completed
                    ELSE Put(completed, sid, 0)
    /\ lastCall' = Call("initialize_session", sid, NoArg,
                        IF sid \in DOMAIN pipeline_manager._sessions THEN "noop" ELSE "returned")
    /\ UNCHANGED summary
    /\ PipelineFrame

cleanup_session(sid) ==
    /\ PipelineAssign(CleanupSessionEffect(pipeline_manager, sid))
    /\ completed' = IF sid \in DOMAIN completed THEN Remove(completed, sid) ELSE completed
    /\ lastCall' = Call("cleanup_session", sid, NoArg,
                        IF sid \in DOMAIN pipeline_manager._sessions THEN "returned" ELSE "noop")
    /\ UNCHANGED summary
    /\ PipelineFrame

process_audio_chunk(sid, audio_data) ==
    /\ SumOver(completed, DOMAIN completed) < MaxChunks
    /\ PipelineAssign(ProcessAudioChunkEffect(pipeline_manager, sid, audio_data))
    /\ completed' = IF sid \in DOMAIN completed THEN [completed EXCEPT ![sid] = @ + 1]
                    ELSE completed
    /\ lastCall' = Call("process_audio_chunk", sid, NoArg,
                        IF sid \in DOMAIN pipeline_manager._sessions THEN "returned" ELSE "noop")
    /\ UNCHANGED summary
    /\ PipelineFrame

pipeline_handle_interruption(sid) ==
    /\ PipelineAssign(PipelineInterruptionEffect(pipeline_manager, sid))
    /\ lastCall' = Call("pipeline_manager.handle_interruption", sid, NoArg,
                        IF sid \in DOMAIN pipeline_manager._sessions THEN "returned" ELSE "noop")
    /\ UNCHANGED <<summary, completed>>
    /\ PipelineFrame

\* _monitor_performance, lines 364-392, one cycle: an alert for every session whose
\* measured p95 latency is high and that has none yet
_monitor_performance ==
    /\ \E high \in SUBSET {s \in DOMAIN pipeline_manager._metrics :
                             pipeline_manager._metrics[s].total_chunks_processed > 0} :
          PipelineAssign([pipeline_manager EXCEPT !._performance_alerts = @ \cup high])
    /\ lastCall' = Call("_monitor_performance", NoArg, NoArg, "sleeping")
    /\ UNCHANGED <<summary, completed>>
    /\ PipelineFrame

get_performance_summary ==
    /\ summary' = PerformanceSummary(pipeline_manager)
    /\ lastCall' = Call("get_performance_summary", NoArg, NoArg, "returned")
    /\ UNCHANGED <<pipeline_manager, pipeline_sessions, completed>>
    /\ PipelineFrame

(* ================= VoiceOrchestrator._on_text_response ================== *)
\* a text is a sequence of characters
Rep(c, n) == [i \in 1..n |-> c]

\* the fragments the agent stream yields: an empty one, short words, a blank, a full
\* stop, a full stop followed by a blank, a paragraph break, and two long runs
Fragments ==
    {<<>>, Rep("a", 5), <<" ">>, <<".">>, <<".", " ">>, <<"\n", "\n">>,
     Rep("a", 29), Rep("a", 120)}

\* "".join(text_buffer)
RECURSIVE Join(_)
Join(frags) == IF frags = <<>> THEN <<>> ELSE Head(frags) \o Join(Tail(frags))

\* the characters str.strip and str.rstrip remove
IsSpace(c) == c \in {" ", "\n", "\t"}

RECURSIVE rstrip(_)
rstrip(text) ==
    IF text # <<>> /\ IsSpace(text[Len(text)]) THEN rstrip(SubSeq(text, 1, Len(text) - 1))
    ELSE text

RECURSIVE lstrip(_)
lstrip(text) == IF text # <<>> /\ IsSpace(Head(text)) THEN lstrip(Tail(text)) ELSE text

strip(text) == lstrip(rstrip(text))

\* line 403: buffered_text.rstrip().endswith(('.', '!', '?'))
has_sentence_end(text) ==
    LET r == rstrip(text) IN r # <<>> /\ r[Len(r)] \in {".", "!", "?"}

\* line 404: '\n\n' in buffered_text
has_paragraph_break(text) ==
    \E i \in 1..(Len(text) - 1) : text[i] = "\n" /\ text[i + 1] = "\n"

\* line 405: len(buffered_text) >= min_buffer_size
has_minimum_size(text) == Len(text) >= min_buffer_size

\* faulty variant: a paragraph break triggers synthesis whatever the length
should_synthesize_on_any_break(text) ==
    (has_sentence_end(text) /\ Len(text) >= sentence_min_size) \/ has_paragraph_break(text)

\* line 407
should_synthesize(text) ==
    (has_sentence_end(text) \/ has_paragraph_break(text)) /\ Len(text) >= sentence_min_size

\* faulty variant: only the latest fragment is synthesized when the buffer is flushed
FragmentEffectLatestOnly(tb, syn, chunk) ==
    LET tb1 == Append(tb, chunk)
        buffered_text == Join(tb1)
    IN  IF chunk = <<>> THEN [tb |-> tb, syn |-> syn]
        ELSE IF should_synthesize(buffered_text) \/ has_minimum_size(buffered_text)
        THEN [tb |-> <<>>, syn |-> Append(syn, chunk)]
        ELSE [tb |-> tb1, syn |-> syn]

\* lines 392-422, the body of the loop for one fragment: the new text_buffer and the
\* calls of tts_manager.synthesize so far
FragmentEffect(tb, syn, chunk) ==
    LET tb1 == Append(tb, chunk)
        buffered_text == Join(tb1)
    IN  IF chunk = <<>> THEN [tb |-> tb, syn |-> syn]
        ELSE IF should_synthesize(buffered_text) \/ has_minimum_size(buffered_text)
        THEN [tb |-> <<>>, syn |-> Append(syn, buffered_text)]
        ELSE [tb |-> tb1, syn |-> syn]

\* faulty variant: what is left in the buffer when the stream ends is not synthesized
StreamEndEffectNoFlush(tb, syn) == syn

\* lines 425-433, after the loop: the calls of tts_manager.synthesize so far
StreamEndEffect(tb, syn) ==
    IF tb # <<>> /\ strip(Join(tb)) # <<>> THEN Append(syn, strip(Join(tb))) ELSE syn

\* what the text-to-speech client does with a text
SynthesisOutcomes == {"audio", "error"}

\* faulty variant: an error of the client propagates to the caller
synthesize_propagating(text, outcome) ==
    [audio_data |-> IF text = <<>> \/ outcome = "error" THEN <<>> ELSE <<"pcm", text>>,
     raised |-> text # <<>> /\ outcome = "error"]

\* TTSManager.synthesize, lines 41-72: None for an empty text and when the client
\* raises (the exception is caught and logged), else the audio of the text.  None is
\* written <<>>: the caller only tests `if audio_data`
synthesize(text, outcome) ==
    [audio_data |-> IF text = <<>> \/ outcome = "error" THEN <<>> ELSE <<"pcm", text>>,
     raised |-> FALSE]

\* faulty variant: whatever synthesize returned is played and reported
DeliverUnchecked(sp, rp, text, audio_data, final) ==
    [sp |-> Append(sp, audio_data), rp |-> Append(rp, text)]

\* lines 414-419 (in the loop) and 430-433 (after it, final): audio is played if there
\* is any; the turn is reported if there is audio or, after the loop, in any case
Deliver(sp, rp, text, audio_data, final) ==
    [sp |-> IF audio_data # <<>> THEN Append(sp, audio_data) ELSE sp,
     rp |-> IF audio_data # <<>> \/ final THEN Append(rp, text) ELSE rp]

\* what a block of _on_text_response never writes
ChunkerFrame == UNCHANGED <<coreVars, bufVars, pipeVars, audioVars, error_calls>>

\* a text was passed to synthesize, with this outcome: an exception ends the handler
\* (lines 435-438), otherwise the audio is delivered and the buffer becomes tb
Synthesized(tb, text, outcome, final) ==
    LET r == synthesize(text, outcome)
        d == Deliver(spoken, reported, text, r.audio_data, final)
    IN  IF r.raised
        THEN /\ stream' = "failed"
             /\ lastCall' = Call("_on_text_response", NoArg, NoArg, "raised")
             /\ UNCHANGED <<text_buffer, spoken, reported>>
        ELSE /\ stream' = IF final THEN "ended" ELSE stream
             /\ text_buffer' = tb
             /\ spoken' = d.sp
             /\ reported' = d.rp
             /\ lastCall' = Call("_on_text_response", NoArg, NoArg,
                                 IF r.audio_data = <<>> THEN "synthesis_failed"
                                 ELSE IF final THEN "returned" ELSE "synthesized")

\* the agent stream yields a fragment (one iteration of the loop, lines 391-422)
agent_yields(chunk) ==
    /\ stream = "open"
    /\ Len(yielded) < MaxFragments
    /\ LET e == FragmentEffect(text_buffer, synthesized, chunk)
       IN  /\ synthesized' = e.syn
           /\ IF e.syn # synthesized
              THEN \E outcome \in SynthesisOutcomes :
                      Synthesized(e.tb, e.syn[Len(e.syn)], outcome, FALSE)
              ELSE /\ text_buffer' = e.tb
                   /\ lastCall' = Call("_on_text_response", NoArg, NoArg,
                                       IF chunk = <<>> THEN "skipped" ELSE "buffered")
                   /\ UNCHANGED <<spoken, reported, stream>>
    /\ yielded' = Append(yielded, chunk)
    /\ UNCHANGED <<response_for, reported_user>>
    /\ ChunkerFrame

\* the agent stream ends (lines 424-433)
agent_stream_ends ==
    /\ stream = "open"
    /\ LET syn == StreamEndEffect(text_buffer, synthesized)
       IN  /\ synthesized' = syn
           /\ IF syn # synthesized
              THEN \E outcome \in SynthesisOutcomes :
                      Synthesized(text_buffer, syn[Len(syn)], outcome, TRUE)
              ELSE /\ stream' = "ended"
                   /\ lastCall' = Call("_on_text_response", NoArg, NoArg, "returned")
                   /\ UNCHANGED <<text_buffer, spoken, reported>>
    /\ UNCHANGED <<yielded, response_for, reported_user>>
    /\ ChunkerFrame

\* what the first blocks of _on_text_response never write
HandlerFrame ==
    UNCHANGED <<max_turns, enable_interruption, clients, _sessions, _session_states,
                reg_tasks, reaper, used, now, max_concurrent_sessions, _active_sessions,
                pipeline_sessions, destroyed, ended_calls, session_ended_calls, bufVars, pipeVars, audioVars,
                error_calls, text_buffer, synthesized, spoken, reported, yielded>>

\* _on_text_response, lines 371-376: nothing for an id that is not active; otherwise
\* flow_manager.process_user_input runs up to its first suspension (lines 196-230), or
\* returns at once, and then the handler reports the user's turn and goes on to the
\* agent (lines 378-391)
_on_text_response(sid, text) ==
    /\ stream = "none"
    /\ TotalTurns < MaxLen
    /\ IF sid \notin _active_sessions
       THEN /\ lastCall' = Call("_on_text_response", sid, text, "noop")
            /\ UNCHANGED <<conversations, flow_tasks, stream, response_for, reported_user>>
       ELSE /\ response_for' = sid
            /\ IF sid \notin DOMAIN conversations
               THEN /\ stream' = "open"
                    /\ reported_user' = Append(reported_user, sid)
                    /\ lastCall' = Call("_on_text_response", sid, text, "streaming")
                    /\ UNCHANGED <<conversations, flow_tasks>>
               ELSE IF AcceptsInput(conversations[sid])
               THEN /\ BagCardinality(flow_tasks) < MaxTasks
                    /\ conversations' = UserTurnEffect(conversations, sid, text, TRUE)
                    /\ flow_tasks' = Park(flow_tasks, Task("process_user_input", "sleep230",
                                                           sid, NoArg, FALSE))
                    /\ stream' = "input"
                    /\ lastCall' = Call("_on_text_response", sid, text, "suspended")
                    /\ UNCHANGED reported_user
               ELSE IF enable_interruption /\ conversations[sid].state = "responding"
               THEN /\ BagCardinality(flow_tasks) < MaxTasks
                    /\ TotalInterruptions < MaxIntr
                    /\ conversations' = InterruptEffect(conversations, sid)
                    /\ flow_tasks' = Park(flow_tasks, Task("process_user_input", "sleep316",
                                                           sid, text, TRUE))
                    /\ stream' = "input"
                    /\ lastCall' = Call("_on_text_response", sid, text, "interrupting")
                    /\ UNCHANGED reported_user
               ELSE /\ stream' = "open"
                    /\ reported_user' = Append(reported_user, sid)
                    /\ lastCall' = Call("_on_text_response", sid, text, "streaming")
                    /\ UNCHANGED <<conversations, flow_tasks>>
    /\ HandlerFrame

\* process_user_input has returned to the handler, which reports the user's turn, goes
\* on to the agent (lines 378-391) and waits for the first fragment; it does not look
\* at the session again
_on_text_response_streams ==
    /\ stream = "input"
    /\ \A t \in BagToSet(flow_tasks) : ~(t.op = "process_user_input" /\ t.sid = response_for)
    /\ stream' = "open"
    /\ reported_user' = Append(reported_user, response_for)
    /\ lastCall' = Call("_on_text_response", response_for, NoArg, "streaming")
    /\ UNCHANGED <<conversations, flow_tasks, response_for>>
    /\ HandlerFrame

(* ============================ AudioIOManager =========================== *)
\* Its methods are called from the event loop's thread, one at a time; each drain
\* thread (_play_buffered_audio) is an operating-system thread that runs between any
\* two statements of them.  A chunk is named by its number in the order of play_audio
\* calls; what the buffer holds is the chunk resampled to the hardware rate.

\* Optional[...] fields that hold nothing (lines 65 and 73)
None == 0

\* the chunk, resampled from vertex_output_rate to hardware_sample_rate (lines 137-146)
resample(data) == [chunk |-> data, rate |-> "hardware"]

\* __init__, lines 64-73
NewAudioIOManager ==
    [_input_stream |-> None, _audio_callback |-> NoArg, _is_capturing |-> FALSE,
     _audio_buffer |-> <<>>, _is_playing |-> FALSE, _playback_thread |-> None]

\* the event loop's thread is inside no method of the manager
Idle == [op |-> NoArg, pc |-> NoArg]

\* threading.Thread.is_alive
is_alive(t) == t \in DOMAIN threads /\ threads[t].pc # "dead"

AliveThreads == {t \in DOMAIN threads : is_alive(t)}

\* what a block of the audio manager never writes
AudioFrame == UNCHANGED <<coreVars, bufVars, chunkVars, pipeVars, error_calls>>

(* ------------------------------ capture -------------------------------- *)
\* outcomes of opening the input device: the stream is opened and started,
\* sd.InputStream raises, or the stream is opened and its start raises
DeviceOutcomes == {"started", "open_failed", "start_failed"}

\* faulty variant: start_capture does not test _is_capturing
StartCaptureAlways(a, sd, audio_callback, outcome) ==
    LET input_stream == sd.opened + 1
    IN  IF outcome = "open_failed"
        THEN [a |-> [a EXCEPT !._audio_callback = audio_callback, !._is_capturing = TRUE],
              sd |-> sd, ret |-> "raised"]
        ELSE [a |-> [a EXCEPT !._audio_callback = audio_callback, !._is_capturing = TRUE,
                              !._input_stream = input_stream],
              sd |-> [sd EXCEPT !.streams = @ \cup {input_stream},
                                !.active = IF outcome = "started" THEN @ \cup {input_stream}
                                           ELSE @,
                                !.opened = input_stream],
              ret |-> IF outcome = "started" THEN "returned" ELSE "raised"]

\* start_capture, lines 82-113: nothing if _is_capturing; otherwise the callback and
\* the flag are set before the stream is constructed (103) and started (111), and an
\* error of either propagates with them set
StartCaptureEffect(a, sd, audio_callback, outcome) ==
    IF a._is_capturing
    THEN [a |-> a, sd |-> sd, ret |-> "noop"]
    ELSE StartCaptureAlways(a, sd, audio_callback, outcome)

\* faulty variant: stop_capture forgets the stream without closing it
StopCaptureNoClose(a, sd) ==
    IF ~a._is_capturing
    THEN [a |-> a, sd |-> sd, ret |-> "noop"]
    ELSE [a |-> [a EXCEPT !._is_capturing = FALSE, !._input_stream = None],
          sd |-> sd, ret |-> "returned"]

\* stop_capture, lines 115-127: nothing unless _is_capturing; the flag is cleared and
\* the stream, if there is one, stopped, closed and forgotten
StopCaptureEffect(a, sd) ==
    IF ~a._is_capturing
    THEN [a |-> a, sd |-> sd, ret |-> "noop"]
    ELSE [a |-> [a EXCEPT !._is_capturing = FALSE, !._input_stream = None],
          sd |-> [sd EXCEPT !.streams = @ \ {a._input_stream},
                            !.active = @ \ {a._input_stream}],
          ret |-> "returned"]

start_capture(audio_callback) ==
    /\ io_call = Idle
    /\ \E outcome \in DeviceOutcomes :
         LET r == StartCaptureEffect(audio_io_manager, sounddevice, audio_callback, outcome)
         IN  /\ r.sd.opened <= MaxStreams
             /\ audio_io_manager' = r.a
             /\ sounddevice' = r.sd
             /\ lastCall' = Call("start_capture", audio_callback, NoArg, r.ret)
    /\ UNCHANGED <<threads, io_call, scheduled, enqueued, stopped>>
    /\ AudioFrame

stop_capture ==
    /\ io_call = Idle
    /\ LET r == StopCaptureEffect(audio_io_manager, sounddevice)
       IN  /\ audio_io_manager' = r.a
           /\ sounddevice' = r.sd
           /\ lastCall' = Call("stop_capture", NoArg, NoArg, r.ret)
    /\ UNCHANGED <<threads, io_call, scheduled, enqueued, stopped>>
    /\ AudioFrame

\* _audio_input_callback, lines 213-268, on the thread of a started stream: nothing
\* unless capturing with a callback; otherwise the block is resampled and the callback
\* submitted to the event loop.  stream.stop() returns after the callback in progress,
\* so the callback runs between the blocks of the event loop's thread.
_audio_input_callback ==
    /\ sounddevice.active # {}
    /\ Len(scheduled) < MaxCaptured
    /\ IF audio_io_manager._is_capturing /\ audio_io_manager._audio_callback # NoArg
       THEN /\ scheduled' = Append(scheduled, audio_io_manager._audio_callback)
            /\ lastCall' = Call("_audio_input_callback", audio_io_manager._audio_callback,
                                NoArg, "scheduled")
       ELSE /\ UNCHANGED scheduled
            /\ lastCall' = Call("_audio_input_callback", NoArg, NoArg, "noop")
    /\ UNCHANGED <<audio_io_manager, threads, io_call, sounddevice, enqueued, stopped>>
    /\ AudioFrame

(* ------------------------------ playback ------------------------------- *)
\* play_audio, lines 137-154: the chunk is resampled and appended to the buffer
play_audio(data) ==
    /\ io_call = Idle
    /\ data = Len(enqueued) + 1
    /\ data <= MaxPlay
    /\ audio_io_manager' = [audio_io_manager EXCEPT !._audio_buffer = Append(@, resample(data))]
    /\ enqueued' = Append(enqueued, data)
    /\ io_call' = [op |-> "play_audio", pc |-> "l157"]
    /\ stopped' = FALSE
    /\ lastCall' = Call("play_audio", NoArg, NoArg, "appended")
    /\ UNCHANGED <<threads, sounddevice, scheduled>>
    /\ AudioFrame

\* play_audio, lines 157-158: if no playback is flagged, flag it
play_audio_l157 ==
    /\ io_call = [op |-> "play_audio", pc |-> "l157"]
    /\ IF audio_io_manager._is_playing
       THEN /\ io_call' = Idle
            /\ lastCall' = Call("play_audio", NoArg, NoArg, "returned")
            /\ UNCHANGED audio_io_manager
       ELSE /\ io_call' = [op |-> "play_audio", pc |-> "l159"]
            /\ audio_io_manager' = [audio_io_manager EXCEPT !._is_playing = TRUE]
            /\ lastCall' = Call("play_audio", NoArg, NoArg, "flagged")
    /\ UNCHANGED <<threads, sounddevice, scheduled, enqueued, stopped>>
    /\ AudioFrame

\* play_audio, lines 159-163: a drain thread is created, remembered and started
play_audio_l159 ==
    /\ io_call = [op |-> "play_audio", pc |-> "l159"]
    /\ Len(threads) < MaxThreads
    /\ threads' = Append(threads, [pc |-> "l186", full_audio |-> <<>>])
    /\ audio_io_manager' = [audio_io_manager EXCEPT !._playback_thread = Len(threads) + 1]
    /\ io_call' = Idle
    /\ lastCall' = Call("play_audio", NoArg, NoArg, "started")
    /\ UNCHANGED <<sounddevice, scheduled, enqueued, stopped>>
    /\ AudioFrame

\* stop_playback, line 170
stop_playback ==
    /\ io_call = Idle
    /\ audio_io_manager' = [audio_io_manager EXCEPT !._is_playing = FALSE]
    /\ io_call' = [op |-> "stop_playback", pc |-> "l171"]
    /\ lastCall' = Call("stop_playback", NoArg, NoArg, "unflagged")
    /\ UNCHANGED <<threads, sounddevice, scheduled, enqueued, stopped>>
    /\ AudioFrame

\* stop_playback, lines 171-174: the buffer is replaced by an empty one; the thread
\* is joined if there is one alive
stop_playback_l171 ==
    /\ io_call = [op |-> "stop_playback", pc |-> "l171"]
    /\ audio_io_manager' = [audio_io_manager EXCEPT !._audio_buffer = <<>>]
    /\ IF is_alive(audio_io_manager._playback_thread)
       THEN /\ io_call' = [op |-> "stop_playback", pc |-> "l175"]
            /\ lastCall' = Call("stop_playback", NoArg, NoArg, "joining")
       ELSE /\ io_call' = Idle
            /\ lastCall' = Call("stop_playback", NoArg, NoArg, "returned")
    /\ stopped' = (io_call' = Idle)
    /\ UNCHANGED <<threads, sounddevice, scheduled, enqueued>>
    /\ AudioFrame

\* stop_playback, line 175: join(timeout=1.0) returns when the thread has ended, or
\* after a second while it is still blocked in sd.wait()
stop_playback_l175 ==
    /\ io_call = [op |-> "stop_playback", pc |-> "l175"]
    /\ LET t == audio_io_manager._playback_thread
       IN  \/ /\ ~is_alive(t)
              /\ lastCall' = Call("stop_playback", NoArg, NoArg, "returned")
           \/ /\ threads[t].pc = "l202"
              /\ lastCall' = Call("stop_playback", NoArg, NoArg, "timed_out")
    /\ io_call' = Idle
    /\ stopped' = TRUE
    /\ UNCHANGED <<audio_io_manager, threads, sounddevice, scheduled, enqueued>>
    /\ AudioFrame

\* shutdown, lines 270-274: stop_capture() and then stop_playback(), here up to its
\* line 170; the rest of stop_playback follows as above
shutdown ==
    /\ io_call = Idle
    /\ LET r == StopCaptureEffect(audio_io_manager, sounddevice)
       IN  /\ audio_io_manager' = [r.a EXCEPT !._is_playing = FALSE]
           /\ sounddevice' = r.sd
    /\ io_call' = [op |-> "stop_playback", pc |-> "l171"]
    /\ lastCall' = Call("shutdown", NoArg, NoArg, "unflagged")
    /\ UNCHANGED <<threads, scheduled, enqueued, stopped>>
    /\ AudioFrame

\* line 189: np.concatenate of the buffer as it is now (of no chunk: ValueError,
\* caught at 208); the buffer is replaced nine lines later
Concatenate(a, th) ==
    IF a._audio_buffer = <<>>
    THEN [a |-> a, th |-> [th EXCEPT !.pc = "l211"]]
    ELSE [a |-> a, th |-> [pc |-> "l198", full_audio |-> a._audio_buffer]]

\* _play_buffered_audio, lines 185-211: the next statement of drain thread t
_play_buffered_audio(t) ==
    /\ is_alive(t)
    /\ LET th == threads[t]
           a == audio_io_manager
       IN  CASE th.pc = "l186" ->
                  /\ threads' = [threads EXCEPT ![t].pc =
                                   IF a._is_playing \/ Len(a._audio_buffer) > 0
                                   THEN "l187" ELSE "l211"]
                  /\ UNCHANGED <<audio_io_manager, sounddevice>>
             [] th.pc = "l187" ->
                  /\ threads' = [threads EXCEPT ![t].pc =
                                   IF Len(a._audio_buffer) > 0 THEN "l189" ELSE "l186"]
                  /\ UNCHANGED <<audio_io_manager, sounddevice>>
             [] th.pc = "l189" ->
                  /\ threads' = [threads EXCEPT ![t] = Concatenate(a, th).th]
                  /\ audio_io_manager' = Concatenate(a, th).a
                  /\ UNCHANGED sounddevice
             [] th.pc = "l198" ->
                  /\ threads' = [threads EXCEPT ![t].pc = "l201"]
                  /\ audio_io_manager' = [a EXCEPT !._audio_buffer = <<>>]
                  /\ UNCHANGED sounddevice
             [] th.pc = "l201" ->
                  /\ threads' = [threads EXCEPT ![t].pc = "l202"]
                  /\ sounddevice' = [sounddevice EXCEPT !.played = @ \o th.full_audio]
                  /\ UNCHANGED audio_io_manager
             [] th.pc = "l202" ->
                  /\ threads' = [threads EXCEPT ![t].pc = "l186"]
                  /\ UNCHANGED <<audio_io_manager, sounddevice>>
             [] th.pc = "l211" ->
                  /\ threads' = [threads EXCEPT ![t].pc = "dead"]
                  /\ audio_io_manager' = [a EXCEPT !._is_playing = FALSE]
                  /\ UNCHANGED sounddevice
    /\ lastCall' = Call("_play_buffered_audio", NoArg, NoArg, threads[t].pc)
    /\ UNCHANGED <<io_call, scheduled, enqueued, stopped>>
    /\ AudioFrame

(* ============================ specifications =========================== *)
\* a response stream that has not begun
ChunkerVarsInit ==
    /\ text_buffer = <<>>
    /\ synthesized = <<>>
    /\ spoken = <<>>
    /\ reported = <<>>
    /\ reported_user = <<>>
    /\ yielded = <<>>
    /\ stream = "open"
    /\ response_for = NoArg

\* the pipeline manager as the orchestrator constructs it
PipelineVarsInit ==
    /\ pipeline_manager = NewPipelineManager(buffer_size)
    /\ summary = PerformanceSummary(NewPipelineManager(buffer_size))
    /\ completed = <<>>

\* the audio manager as constructed: no capture, nothing to play, no drain thread;
\* no error reported yet
AudioVarsInit ==
    /\ audio_io_manager = NewAudioIOManager
    /\ threads = <<>>
    /\ io_call = Idle
    /\ sounddevice = [streams |-> {}, active |-> {}, opened |-> 0, played |-> <<>>]
    /\ scheduled = <<>>
    /\ enqueued = <<>>
    /\ stopped = FALSE
    /\ error_calls = [s \in Sessions |-> 0]

\* a buffer of the default size, never used, a response stream that has not begun and
\* the pipeline manager as constructed
AuxInit ==
    /\ buffer = NewBuffer(buffer_size)
    /\ added = <<>>
    /\ ChunkerVarsInit
    /\ PipelineVarsInit
    /\ AudioVarsInit

\* every component but the buffer and the response handler, as constructed
RestInit ==
    /\ max_turns = max_conversation_turns
    /\ enable_interruption = TRUE
    /\ conversations = <<>>
    /\ flow_tasks = EmptyBag
    /\ lastCall = Call("construct", NoArg, NoArg, "ok")
    /\ RegInit
    /\ max_concurrent_sessions = default_max_concurrent_sessions

\* one PipelineBuffer
BufferInit ==
    /\ RestInit
    /\ buffer \in {NewBuffer(n) : n \in MaxSizeChoices}
    /\ added = <<>>
    /\ ChunkerVarsInit
    /\ PipelineVarsInit
    /\ AudioVarsInit

BufferNext ==
    \/ \E chunk \in AudioChunks : buffer_add_chunk(chunk)
    \/ buffer_clear

BufferSpec == BufferInit /\ [][BufferNext]_vars

\* the pipeline manager with buffers small enough to fill
PipelineInit ==
    /\ RestInit
    /\ buffer = NewBuffer(buffer_size)
    /\ added = <<>>
    /\ ChunkerVarsInit
    /\ pipeline_manager \in {NewPipelineManager(n) : n \in MaxSizeChoices}
    /\ summary = PerformanceSummary(NewPipelineManager(buffer_size))
    /\ completed = <<>>
    /\ AudioVarsInit

PipelineNext ==
    \/ \E sid \in Sessions : initialize_session(sid)
    \/ \E sid \in Sessions : cleanup_session(sid)
    \/ \E sid \in Sessions, audio_data \in PipelineChunks : process_audio_chunk(sid, audio_data)
    \/ \E sid \in Sessions : pipeline_handle_interruption(sid)
    \/ _monitor_performance
    \/ get_performance_summary

PipelineSpec == PipelineInit /\ [][PipelineNext]_vars

\* one invocation of _on_text_response, from the first fragment of the agent stream
ChunkerInit == RestInit /\ AuxInit

ChunkerNext ==
    \/ \E chunk \in Fragments : agent_yields(chunk)
    \/ agent_stream_ends

ChunkerSpec == ChunkerInit /\ [][ChunkerNext]_vars

\* the flow manager on its own, under the orchestrator's default limits
Init ==
    /\ FlowInit
    /\ RegInit
    /\ AuxInit
    /\ max_concurrent_sessions = default_max_concurrent_sessions

\* one conversation driven by concurrent callers
Next == FlowCall({"s1"}) \/ FlowResume

Spec == Init /\ [][Next]_vars

\* several conversations driven by one caller that awaits each call before the next
SeqNext == (flow_tasks = EmptyBag /\ FlowCall(Sessions)) \/ FlowResume

SeqSpec == Init /\ [][SeqNext]_vars

\* the started orchestrator with its registry, under concurrent callers
OrchInit ==
    /\ max_turns = max_conversation_turns
    /\ enable_interruption = TRUE
    /\ conversations = <<>>
    /\ flow_tasks = EmptyBag
    /\ lastCall = Call("construct", NoArg, NoArg, "ok")
    /\ RegInit
    /\ AuxInit
    /\ max_concurrent_sessions \in MaxConcurrentChoices

\* sessions are started, ended and reaped; the transport does not fail
OrchNext == OrchCall(Sessions) \/ OrchResume \/ Background(Sessions)

OrchSpec == OrchInit /\ [][OrchNext]_vars

\* one session whose transport fails while it is used, ended and reaped
RegNext == OrchCall({"s1"}) \/ OrchResume \/ Background({"s1"}) \/ Transport({"s1"})

\* with a single id the limit plays no part: it is the lowest one
OneSessionInit == OrchInit /\ max_concurrent_sessions = 1

RegSpec == OneSessionInit /\ [][RegNext]_vars

\* one session whose transport fails and whose listener meets messages it cannot handle
ReconnectNext == RegNext \/ _handle_error("s1")

ReconnectSpec == OneSessionInit /\ [][ReconnectNext]_vars

\* no invocation of _on_text_response yet
HandlerIdle ==
    /\ text_buffer = <<>>
    /\ synthesized = <<>>
    /\ spoken = <<>>
    /\ reported = <<>>
    /\ reported_user = <<>>
    /\ yielded = <<>>
    /\ stream = "none"
    /\ response_for = NoArg

\* the started orchestrator, before any response
StaleInit ==
    /\ RestInit
    /\ buffer = NewBuffer(buffer_size)
    /\ added = <<>>
    /\ HandlerIdle
    /\ PipelineVarsInit
    /\ AudioVarsInit

\* the fragments of a response of one sentence
SentenceFragments == {Rep("a", 29), <<".", " ">>}

\* one conversation is started, used and ended while a transcript of the user's speech
\* is handled for it and the microphone's callback sends audio for it
StaleNext ==
    \/ start_conversation({"s1"})
    \/ OrchResume
    \/ VoiceOrchestrator_end_conversation("s1")
    \/ Transport({"s1"})
    \/ _handle_audio_response("s1")
    \/ _on_text_response("s1", "u1")
    \/ \E t \in FlowTaskSpace : process_user_input_resume(t)
    \/ _on_text_response_streams
    \/ \E chunk \in SentenceFragments : agent_yields(chunk)
    \/ agent_stream_ends

StaleSpec == StaleInit /\ [][StaleNext]_vars

\* the handler passes the audio of a synthesized text to play_audio (lines 415 and 431)
_on_text_response_plays ==
    /\ Len(enqueued) < Len(spoken)
    /\ play_audio(Len(enqueued) + 1)

\* one conversation is started and interrupted while a transcript of the user's speech
\* is handled for it: the agent's response is synthesized and played
BargeInNext ==
    \/ start_conversation({"s1"})
    \/ \E t \in RegTaskSpace, ok \in BOOLEAN : start_conversation_connected(t, ok)
    \/ interrupt_conversation("s1")
    \/ \E t \in FlowTaskSpace : handle_interruption_resume(t)
    \/ _on_text_response("s1", "u1")
    \/ \E t \in FlowTaskSpace : process_user_input_resume(t)
    \/ _on_text_response_streams
    \/ \E chunk \in SentenceFragments : agent_yields(chunk)
    \/ agent_stream_ends
    \/ _on_text_response_plays
    \/ play_audio_l157
    \/ play_audio_l159
    \/ \E t \in 1..MaxThreads : _play_buffered_audio(t)

BargeInSpec == StaleInit /\ [][BargeInNext]_vars

\* what the event loop does by itself once a transcript is being handled: a coroutine
\* whose sleep is over resumes, the handler goes on to the agent, the agent's stream
\* yields its fragments and ends
HandlerProgress ==
    \/ \E t \in FlowTaskSpace : handle_interruption_resume(t)
    \/ \E t \in FlowTaskSpace : process_user_input_resume(t)
    \/ _on_text_response_streams
    \/ \E chunk \in SentenceFragments : agent_yields(chunk)
    \/ agent_stream_ends

\* the same conversation, with the event loop running whatever can run; nothing
\* obliges the callers to start, interrupt or address the conversation
AnswerSpec ==
    /\ StaleInit
    /\ [][BargeInNext]_vars
    /\ WF_vars(HandlerProgress)

\* the flow manager as the orchestrator constructs it by default: interruption
\* enabled, max_conversation_turns turns
InterruptInit ==
    /\ Init
    /\ max_turns = max_conversation_turns
    /\ enable_interruption = TRUE

\* the second conversation is set up and ended
OtherSessionCall ==
    \/ initialize_conversation("s2")
    \/ end_conversation("s2")

\* one conversation driven by concurrent callers while a second conversation is set up
\* and ended, with the event loop running every coroutine whose grace delay is over
InterruptNext ==
    \/ initialize_conversation("s1")
    \/ end_conversation("s1")
    \/ process_user_input("s1", "u1")
    \/ process_agent_response("s1", "a1")
    \/ handle_interruption("s1")
    \/ FlowResume
    \/ OtherSessionCall

InterruptSpec ==
    /\ InterruptInit
    /\ [][InterruptNext]_vars
    /\ WF_vars(\E t \in FlowTaskSpace : handle_interruption_resume(t))

\* the audio manager as the orchestrator constructs it, with every other component
AudioInit == RestInit /\ AuxInit

\* the microphone is opened for either session and closed, on a device that may fail
CaptureNext ==
    \/ \E audio_callback \in Sessions : start_capture(audio_callback)
    \/ stop_capture
    \/ _audio_input_callback

CaptureSpec == AudioInit /\ [][CaptureNext]_vars

\* the event loop plays chunks and stops playback while the drain threads run
PlayNext ==
    \/ \E data \in 1..MaxPlay : play_audio(data)
    \/ play_audio_l157
    \/ play_audio_l159

DrainNext == \E t \in 1..MaxThreads : _play_buffered_audio(t)

StopNext ==
    \/ stop_playback
    \/ stop_playback_l171
    \/ stop_playback_l175

PlaybackNext == PlayNext \/ StopNext \/ DrainNext

PlaybackSpec == AudioInit /\ [][PlaybackNext]_vars

\* the microphone is opened, chunks are played, playback is stopped and the manager is
\* shut down, any number of times; the scheduler runs every drain thread that can
\* run (sd.wait returns when the audio has been played) and the event loop's thread
\* goes on inside stop_playback (join returns at the latest after its timeout)
ShutdownNext ==
    \/ start_capture("s1")
    \/ shutdown
    \/ PlaybackNext

ShutdownSpec ==
    /\ AudioInit
    /\ [][ShutdownNext]_vars
    /\ \A t \in 1..MaxThreads : WF_vars(_play_buffered_audio(t))
    /\ WF_vars(stop_playback_l171 \/ stop_playback_l175)

\* chunks are played and never stopped
DrainOnlyNext == PlayNext \/ DrainNext

DrainSpec == AudioInit /\ [][DrainOnlyNext]_vars

\* the started orchestrator with at most one conversation, whose API is called with
\* the id of that conversation and with an id that never was one
BoundaryNext ==
    \/ start_conversation({"s1"})
    \/ OrchResume
    \/ Boundary(Sessions)
    \/ Transport(Sessions)

BoundarySpec == OneSessionInit /\ [][BoundaryNext]_vars

(* ======================= properties: flow manager ====================== *)

Tracked(sid) == sid \in DOMAIN conversations
SleepingInput(sid) == Task("process_user_input", "sleep230", sid, NoArg, FALSE)

\* C1 (as amended: max_turns > 2), one caller, calls awaited one after the other.
\* On a freshly initialized conversation (idle, no turns) process_user_input(sid, u)
\* records exactly the user turn u and, once its processing delay is over, leaves the
\* state responding; process_agent_response(sid, a) called in that state leaves the
\* turns [user u, assistant a] and the state listening.
C1_TurnPair ==
    [][\A sid \in Sessions : \A u \in UserTexts :
        LET only_u == <<ConversationTurn(<<sid, 0>>, "user", u)>>
        IN  /\ (Tracked(sid) /\ conversations[sid] = NewContext /\ process_user_input(sid, u))
                => /\ sid \in DOMAIN conversations'
                   /\ conversations'[sid].turns = only_u
                   /\ flow_tasks' = SetToBag({SleepingInput(sid)})
            /\ (/\ Tracked(sid) /\ conversations[sid].turns = only_u
                /\ conversations[sid].state = "processing"
                /\ process_user_input_resume(SleepingInput(sid)))
                => /\ sid \in DOMAIN conversations'
                   /\ conversations'[sid].turns = only_u
                   /\ conversations'[sid].state = "responding"
            /\ \A a \in AgentTexts :
                (/\ max_turns > 2
                 /\ Tracked(sid) /\ conversations[sid].turns = only_u
                 /\ conversations[sid].state = "responding"
                 /\ process_agent_response(sid, a))
                => /\ sid \in DOMAIN conversations'
                   /\ conversations'[sid].turns =
                          Append(only_u, ConversationTurn(<<sid, 1>>, "assistant", a))
                   /\ conversations'[sid].state = "listening"]_vars

\* C1 witness: the pair of calls has run on a fresh conversation
C1_Witness ==
    /\ lastCall = Call("process_agent_response", "s1", NoArg, "returned")
    /\ Tracked("s1")
    /\ conversations["s1"].state = "listening"
    /\ conversations["s1"].interruption_count = 0
    /\ Len(conversations["s1"].turns) = 2
    /\ conversations["s1"].turns[1].speaker = "user"
    /\ conversations["s1"].turns[2].speaker = "assistant"

\* C1 as stated, for every configuration: after process_user_input and
\* process_agent_response on a fresh conversation the context holds [user, assistant]
\* and is listening.
C1_Original ==
    [][\A sid \in Sessions : \A u \in UserTexts : \A a \in AgentTexts :
        LET only_u == <<ConversationTurn(<<sid, 0>>, "user", u)>>
        IN  (/\ Tracked(sid) /\ conversations[sid].turns = only_u
             /\ conversations[sid].state = "responding"
             /\ conversations[sid].interruption_count = 0
             /\ process_agent_response(sid, a))
            => /\ sid \in DOMAIN conversations'
               /\ conversations'[sid].turns =
                      Append(only_u, ConversationTurn(<<sid, 1>>, "assistant", a))
               /\ conversations'[sid].state = "listening"]_vars

\* the edges of the conversation state machine (spec 4.2)
Edge(old, new) ==
    \/ old \in {"idle", "listening"} /\ new = "processing"
    \/ old = "processing" /\ new = "responding"
    \/ old = "responding" /\ new = "listening"
    \/ new = "interrupted"
    \/ old = "interrupted" /\ new = "listening"
    \/ new = "error"

\* C2: under every interleaving, each change of a tracked context's state follows
\* an edge of the state machine; responding is entered only from processing.
C2_OnlyEdges ==
    [][\A sid \in Sessions :
        (/\ Tracked(sid) /\ sid \in DOMAIN conversations'
         /\ conversations'[sid].state # conversations[sid].state)
        => Edge(conversations[sid].state, conversations'[sid].state)]_vars

\* C3: while a conversation stays tracked its turn list only grows at the end; an
\* existing turn keeps position, speaker, content and id, and its interrupted flag
\* changes only from false to true, on an assistant turn that is then the last one.
C3_AppendOnly ==
    [][\A sid \in Sessions :
        (Tracked(sid) /\ sid \in DOMAIN conversations')
        => LET old == conversations[sid].turns
               new == conversations'[sid].turns
           IN  /\ Len(new) \in {Len(old), Len(old) + 1}
               /\ \A i \in 1..Len(old) :
                    /\ new[i].turn_id = old[i].turn_id
                    /\ new[i].speaker = old[i].speaker
                    /\ new[i].content = old[i].content
                    /\ new[i].interrupted # old[i].interrupted
                         => /\ ~old[i].interrupted /\ new[i].interrupted
                            /\ old[i].speaker = "assistant"
                            /\ i = Len(old)]_vars

\* C3 witness: a list that has grown and whose assistant turn was flagged afterwards
C3_Witness ==
    /\ Tracked("s1")
    /\ Len(conversations["s1"].turns) = 2
    /\ conversations["s1"].turns[2].speaker = "assistant"
    /\ conversations["s1"].turns[2].interrupted

\* the step is the first block of a handle_interruption on sid that was not refused
\* (called directly, or by process_user_input on a responding conversation)
InterruptionStep(sid) ==
    lastCall' \in {Call("handle_interruption", sid, NoArg, "suspended"),
                   Call("process_user_input", sid, NoArg, "interrupting")}

\* C4: handle_interruption on a tracked session with interruption enabled flags the
\* latest turn when it is an assistant turn, and mutates no turn when the latest turn
\* is a user turn or there is none.
C4_FlagsLatestAssistant ==
    [][\A sid \in Sessions :
        (Tracked(sid) /\ enable_interruption /\ InterruptionStep(sid))
        => LET old == conversations[sid].turns
               n == Len(old)
           IN  /\ sid \in DOMAIN conversations'
               /\ conversations'[sid].turns =
                      IF n > 0 /\ old[n].speaker = "assistant"
                      THEN [old EXCEPT ![n].interrupted = TRUE]
                      ELSE old]_vars

\* C4 witness: an interruption has just flagged a latest assistant turn
C4_Witness ==
    /\ lastCall = Call("handle_interruption", "s1", NoArg, "suspended")
    /\ Tracked("s1")
    /\ Len(conversations["s1"].turns) = 2
    /\ conversations["s1"].turns[2].speaker = "assistant"
    /\ conversations["s1"].turns[2].interrupted
    /\ ~conversations["s1"].turns[1].interrupted

\* C9: end_conversation leaves the context of sid absent and every other context as
\* it was; on an id that is not tracked (a second call) it changes nothing, and
\* applying it twice gives what applying it once gives.
C9_EndIdempotent ==
    [][\A sid \in Sessions :
        end_conversation(sid)
        => /\ sid \notin DOMAIN conversations'
           /\ \A o \in Sessions \ {sid} :
                /\ (o \in DOMAIN conversations') = Tracked(o)
                /\ Tracked(o) => conversations'[o] = conversations[o]
           /\ ~Tracked(sid) => conversations' = conversations
           /\ EndConversationEffect(conversations', sid) = conversations'
           /\ lastCall'.ret \in {"ok", "noop"}]_vars

\* C9 witness: a call on an id that is not tracked, while another conversation has turns
C9_Witness ==
    /\ lastCall = Call("end_conversation", "s1", NoArg, "noop")
    /\ ~Tracked("s1")
    /\ Tracked("s2") /\ Len(conversations["s2"].turns) = 2

(* ================= properties: orchestrator and registry ================ *)

\* C5: when the number of active sessions equals the configured maximum,
\* start_conversation raises to its caller, generates no id, creates no client and no
\* speech session, and leaves the set of active sessions and the registry as they were.
C5_LimitRefuses ==
    [][(Cardinality(_active_sessions) = max_concurrent_sessions /\ start_conversation(Sessions))
       => /\ lastCall' = Call("start_conversation", NoArg, NoArg, "raised")
          /\ UNCHANGED <<_active_sessions, _sessions, _session_states, clients,
                         used, reg_tasks, pipeline_sessions, conversations>>]_vars

\* C5 witness: with a maximum of 2 and 2 sessions active, a 3rd start has been refused
C5_Witness ==
    /\ lastCall = Call("start_conversation", NoArg, NoArg, "raised")
    /\ max_concurrent_sessions = 2
    /\ Cardinality(_active_sessions) = 2
    /\ _sessions = _active_sessions

\* C6: under every interleaving of start_conversation and end_conversation the number
\* of active sessions never exceeds max_concurrent_sessions.
C6_NeverOverLimit == Cardinality(_active_sessions) <= max_concurrent_sessions

\* the step belongs to the reaper
ReaperStep == _cleanup_expired_sessions \/ _cleanup_expired_sessions_resume

\* C7: a cycle of the reaper selects exactly the sessions whose time since the last
\* activity exceeds the timeout when it scans; the reaper ends no other session; and
\* when the cycle is over none of the selected sessions is in the registry's map, in
\* its session states, or in the orchestrator's active set.
C7_ReaperCycle ==
    [][/\ _cleanup_expired_sessions
          => reaper'.expired = {s \in DOMAIN _session_states :
                                   now - _session_states[s].last_activity > SessionTimeout}
       /\ ReaperStep
          => /\ \A s \in _sessions \ _sessions' : s \in reaper'.expired
             /\ \A s \in _active_sessions \ _active_sessions' : s \in reaper'.expired
             /\ reaper'.pc = "sleep"
                => \A s \in reaper'.expired :
                       /\ s \notin _sessions'
                       /\ s \notin _active_sessions'
                       /\ s \notin DOMAIN _session_states']_vars

\* C7 witness: a cycle has just ended an expired session and left another one, whose
\* idle time is within the timeout, active
C7_Witness ==
    /\ lastCall = Call("_cleanup_expired_sessions", NoArg, NoArg, "cycle_done")
    /\ reaper.expired = {"s1"}
    /\ "s1" \in destroyed
    /\ _sessions = {"s2"} /\ _active_sessions = {"s2"}
    /\ now - _session_states["s2"].last_activity = SessionTimeout

\* C8: a destroyed session's id is not in the registry's map and its transport is not
\* connected, whatever was in progress for it when it was ended.
C8_NeverRevived ==
    \A sid \in destroyed : sid \notin _sessions /\ ~clients[sid].ws /\ ~clients[sid].is_connected

\* the step completes an end_session on sid that was called directly
EndSessionReturns(sid) ==
    lastCall' \in {Call("end_session", sid, NoArg, r) : r \in {"noop", "returned", "logged"}}

\* C10: every end_session runs to its end without raising, whether the session is
\* registered, already ended, or being ended by a call that is suspended on the
\* disconnect; when it returns the id is absent from the map and its state, if kept, is
\* inactive; and the session-ended callback is invoked at most once per id.
C10_EndSessionIdempotent ==
    [][\A sid \in Sessions :
        /\ ended_calls'[sid] <= 1
        /\ (\E t \in BagToSet(reg_tasks) : t.sid = sid /\ end_session_resume(t))
              => lastCall'.ret \in {"returned", "logged"}
        /\ (end_session(sid) \/ \E t \in BagToSet(reg_tasks) : t.sid = sid /\ end_session_resume(t))
              => lastCall'.ret \in {"noop", "returned", "logged", "suspended"}
        /\ EndSessionReturns(sid)
              => /\ sid \notin _sessions'
                 /\ sid \in DOMAIN _session_states' => ~_session_states'[sid].is_active
                 /\ EndSessionBegin(RegState', sid).r = RegState']_vars

\* C10 witness: the second of two overlapping calls has returned after the first one
\* removed the session and notified
C10_Witness ==
    /\ lastCall = Call("end_session", "s1", NoArg, "logged")
    /\ ended_calls["s1"] = 1
    /\ "s1" \notin _sessions
    /\ "s1" \in DOMAIN _session_states /\ ~_session_states["s1"].is_active

(* ------------------------------ PipelineBuffer -------------------------- *)
\* the last n elements of a sequence (all of it when it is shorter)
LastN(seq, n) == SubSeq(seq, IF Len(seq) > n THEN Len(seq) - n + 1 ELSE 1, Len(seq))

\* C11: a PipelineBuffer never holds more than max_size chunks, and what it holds is,
\* in their order of arrival, the most recent chunks added since it was new or
\* cleared: exactly the max_size most recent ones once more than max_size were added
C11_KeepsMostRecent ==
    /\ Len(buffer.chunks) <= buffer.max_size
    /\ buffer.chunks = LastN(added, buffer.max_size)
    /\ Len(added) > buffer.max_size => Len(buffer.chunks) = buffer.max_size

\* more chunks were added than a buffer of two holds, and the oldest one, which differs
\* from those kept, is gone
C11_Witness ==
    /\ buffer.max_size = 2
    /\ Len(added) > buffer.max_size + 1
    /\ \A i \in 1..Len(buffer.chunks) : buffer.chunks[i] # added[1]
    /\ buffer.chunks[1] # buffer.chunks[2]

(* ------------------------ _on_text_response: synthesis ------------------ *)
\* a text without the blanks at its two ends: what lies between its first and its last
\* character that is not a blank
Trimmed(text) ==
    LET idx == {i \in 1..Len(text) : ~IsSpace(text[i])}
    IN  IF idx = {} THEN <<>>
        ELSE SubSeq(text, CHOOSE i \in idx : \A j \in idx : i <= j,
                          CHOOSE i \in idx : \A j \in idx : i >= j)

\* C12 as stated: when the stream ends with fragments in the buffer, one synthesis
\* call is made with their concatenation
C12_Original ==
    [][(agent_stream_ends /\ text_buffer # <<>>)
         => synthesized' = Append(synthesized, Join(text_buffer))]_vars

\* C12: when the stream ends with fragments in the buffer, exactly one synthesis call
\* is made, with their concatenation less the blanks at its two ends, unless the
\* concatenation is blank altogether, in which case no call is made
C12_TrailingFlush ==
    [][(agent_stream_ends /\ text_buffer # <<>>)
         => LET t == Join(text_buffer)
            IN  synthesized' = IF Trimmed(t) = <<>> THEN synthesized
                               ELSE Append(synthesized, Trimmed(t))]_vars

\* two words and the blank between them never met a flush condition, and the end of
\* the stream made one call with all of it
C12_Witness ==
    /\ stream = "ended"
    /\ yielded = <<Rep("a", 5), <<" ">>, Rep("a", 5)>>
    /\ text_buffer = yielded
    /\ synthesized = <<Join(yielded)>>

\* the condition of C13 as stated
StatedFlushCondition(text) ==
    \/ text # <<>> /\ text[Len(text)] \in {".", "!", "?"} /\ Len(text) >= 30
    \/ has_paragraph_break(text)
    \/ Len(text) > 150

\* the buffer was flushed: one more synthesis call, with all of it, and it is empty
FlushedWith(text) == synthesized' = Append(synthesized, text) /\ text_buffer' = <<>>

C14_Original == stream = "ended" => Join(synthesized) = Join(yielded)

\* C14: the texts sent to synthesis while the stream is open concatenate to the
\* fragments yielded less those still buffered, and once the stream has ended the
\* concatenation of all synthesized texts is that of all fragments less the blanks
\* at the two ends of the last, unflushed part
C14_NothingButBlanksDropped ==
    LET all == Join(yielded)
        rest == Join(text_buffer)
        flushed == SubSeq(all, 1, Len(all) - Len(rest))
    IN  /\ all = flushed \o rest
        /\ Join(synthesized) = flushed \o (IF stream = "ended" THEN Trimmed(rest) ELSE <<>>)

\* a stream whose first part was flushed at a sentence end and whose last part was
\* flushed at the end of the stream: two calls, and every character of it synthesized
C14_Witness ==
    /\ stream = "ended"
    /\ Len(synthesized) = 2
    /\ text_buffer # <<>>
    /\ Len(yielded) > Len(text_buffer) + 1
    /\ Join(synthesized) = Join(yielded)

(* ---------------------- unknown ids and rejected calls ------------------ *)
\* a call of one of the four operations of the flow manager that take a tracked id
FlowOperation(sid) ==
    \/ end_conversation(sid)
    \/ handle_interruption(sid)
    \/ \E u \in UserTexts : process_user_input(sid, u)
    \/ \E a \in AgentTexts : process_agent_response(sid, a)

\* C15: process_user_input, process_agent_response, handle_interruption and
\* end_conversation called with an id that is not tracked return without raising,
\* create no context and leave every tracked conversation, and every coroutine at
\* work on one, as it was
C15_UntrackedNoOp ==
    [][\A sid \in Sessions :
        (~Tracked(sid) /\ FlowOperation(sid))
        => /\ conversations' = conversations
           /\ flow_tasks' = flow_tasks
           /\ lastCall'.ret = "noop"]_vars

\* an agent response for an id that is not tracked was a no-op while another
\* conversation, with a turn recorded, waits for its response
C15_Witness ==
    /\ lastCall = Call("process_agent_response", "s2", NoArg, "noop")
    /\ ~Tracked("s2")
    /\ Tracked("s1")
    /\ conversations["s1"].state = "responding"
    /\ Len(conversations["s1"].turns) = 1

\* what the orchestrator and its collaborators hold about the conversations
BoundaryState ==
    <<conversations, flow_tasks, clients, _sessions, _session_states, reg_tasks,
      _active_sessions, pipeline_sessions, destroyed, ended_calls, session_ended_calls>>

\* C16: end_conversation, interrupt_conversation, send_audio_chunk and
\* start_audio_capture of the orchestrator, called with an id that is not active, all
\* return without raising and change nothing
C16_UniformLogAndReturn ==
    [][\A sid \in Sessions :
        (/\ sid \notin _active_sessions
         /\ \/ VoiceOrchestrator_end_conversation(sid)
            \/ interrupt_conversation(sid)
            \/ send_audio_chunk(sid)
            \/ start_audio_capture(sid))
        => /\ lastCall'.ret = "noop"
           /\ BoundaryState' = BoundaryState]_vars

\* the states in which process_user_input rejects its input
RejectsInput(context) ==
    \/ context.state \in {"processing", "interrupted", "error"}
    \/ context.state = "responding" /\ ~enable_interruption

\* C17: process_user_input on a tracked conversation that is processing, interrupted
\* or in error, or responding with interruption disabled, is rejected: the context
\* (state, turns, current turn id, interruption counter) is unchanged and no coroutine
\* is started
C17_RejectedInput ==
    [][\A sid \in Sessions : \A u \in UserTexts :
        (Tracked(sid) /\ RejectsInput(conversations[sid]) /\ process_user_input(sid, u))
        => /\ conversations' = conversations
           /\ flow_tasks' = flow_tasks
           /\ lastCall'.ret = "rejected"]_vars

\* a second input was rejected while the first one is being processed
C17_Witness ==
    /\ lastCall = Call("process_user_input", "s1", NoArg, "rejected")
    /\ Tracked("s1")
    /\ conversations["s1"].state = "processing"
    /\ Len(conversations["s1"].turns) = 1
    /\ BagIn(SleepingInput("s1"), flow_tasks)

\* the number of assistant turns of a context
AssistantTurns(context) ==
    Cardinality({i \in 1..Len(context.turns) : context.turns[i].speaker = "assistant"})

\* C18: process_agent_response on a tracked conversation that is not responding
\* appends no turn and leaves the context unchanged, and whenever a context gains an
\* assistant turn it was responding
C18_ResponseOnlyWhenResponding ==
    [][\A sid \in Sessions :
        /\ \A a \in AgentTexts :
             (/\ Tracked(sid) /\ conversations[sid].state # "responding"
              /\ process_agent_response(sid, a))
             => /\ conversations' = conversations
                /\ flow_tasks' = flow_tasks
                /\ lastCall'.ret = "rejected"
        /\ (/\ Tracked(sid) /\ sid \in DOMAIN conversations'
            /\ AssistantTurns(conversations'[sid]) > AssistantTurns(conversations[sid]))
             => /\ conversations[sid].state = "responding"
                /\ lastCall'.op = "process_agent_response"]_vars

\* a response was rejected after the conversation had received its response and gone
\* back to listening
C18_Witness ==
    /\ lastCall = Call("process_agent_response", "s1", NoArg, "rejected")
    /\ Tracked("s1")
    /\ conversations["s1"].state = "listening"
    /\ AssistantTurns(conversations["s1"]) = 1
    /\ Len(conversations["s1"].turns) = 2

\* C19: an accepted process_agent_response that brings the number of turns to
\* max_turns or beyond ends the conversation and removes its context; otherwise the
\* context stays tracked, with the new turn, and its state becomes listening
C19_EndsAtMaxTurns ==
    [][\A sid \in Sessions : \A a \in AgentTexts :
        (/\ Tracked(sid) /\ conversations[sid].state = "responding"
         /\ process_agent_response(sid, a))
        => IF Len(conversations[sid].turns) + 1 >= max_turns
           THEN /\ sid \notin DOMAIN conversations'
                /\ \A o \in DOMAIN conversations \ {sid} :
                      o \in DOMAIN conversations' /\ conversations'[o] = conversations[o]
           ELSE /\ sid \in DOMAIN conversations'
                /\ conversations'[sid].state = "listening"
                /\ Len(conversations'[sid].turns) = Len(conversations[sid].turns) + 1]_vars

\* the response that was the second turn of a conversation limited to two turns has
\* ended it, while the other conversation is still tracked
C19_Witness ==
    /\ lastCall = Call("process_agent_response", "s1", NoArg, "returned")
    /\ max_turns = 2
    /\ ~Tracked("s1")
    /\ Tracked("s2")

\* C20: with interruption disabled, handle_interruption on a tracked conversation is
\* rejected: the context (state, interruption counter, the flags of its turns) is
\* unchanged and no coroutine is started
C20_DisabledInterruption ==
    [][\A sid \in Sessions :
        (Tracked(sid) /\ ~enable_interruption /\ handle_interruption(sid))
        => /\ conversations' = conversations
           /\ flow_tasks' = flow_tasks
           /\ lastCall'.ret = "rejected"]_vars

\* an interruption was rejected while the conversation, with a turn recorded, is
\* responding
C20_Witness ==
    /\ lastCall = Call("handle_interruption", "s1", NoArg, "rejected")
    /\ ~enable_interruption
    /\ Tracked("s1")
    /\ conversations["s1"].state = "responding"
    /\ conversations["s1"].interruption_count = 0
    /\ Len(conversations["s1"].turns) = 1

(* --------------------------- initialize_conversation -------------------- *)
\* C22 as stated: initialize_conversation fails with an error for an id that is
\* already tracked, and leaves the contexts unchanged
C22_Original ==
    [][\A sid \in Sessions :
        (Tracked(sid) /\ initialize_conversation(sid))
        => /\ lastCall'.ret = "raised"
           /\ conversations' = conversations]_vars

\* C22: initialize_conversation creates a context in state idle with no turns for an
\* id that is not tracked and leaves the other contexts as they were; for an id that
\* is already tracked it returns without raising and leaves every context unchanged
C22_InitializeOnce ==
    [][\A sid \in Sessions :
        initialize_conversation(sid)
        => IF Tracked(sid)
           THEN /\ conversations' = conversations
                /\ flow_tasks' = flow_tasks
                /\ lastCall'.ret = "noop"
           ELSE /\ DOMAIN conversations' = DOMAIN conversations \cup {sid}
                /\ conversations'[sid].state = "idle"
                /\ conversations'[sid].turns = <<>>
                /\ conversations'[sid].interruption_count = 0
                /\ \A o \in DOMAIN conversations : conversations'[o] = conversations[o]
                /\ lastCall'.ret = "ok"]_vars

\* a conversation that is responding, with a turn recorded, was initialized again and
\* is as it was
C22_Witness ==
    /\ lastCall = Call("initialize_conversation", "s1", NoArg, "noop")
    /\ Tracked("s1")
    /\ conversations["s1"].state = "responding"
    /\ Len(conversations["s1"].turns) = 1

(* ----------------------------- handle_interruption ---------------------- *)
\* a handle_interruption of the conversation is in its grace delay
GraceDelay(sid) ==
    \E t \in BagToSet(flow_tasks) : t.sid = sid /\ t.pc = "sleep316"

\* a handle_interruption has not returned yet
InterruptionPending ==
    \E t \in BagToSet(flow_tasks) : t.op = "handle_interruption"

\* C21: with interruption enabled, handle_interruption on a tracked conversation, in
\* whatever state, adds exactly one to its interruption counter and moves it to
\* interrupted; when the grace delay is over the conversation, if still tracked, is
\* listening, and a tracked conversation with an interruption in its grace delay
\* does get there (or is ended); during the grace delay the operations on the other
\* conversation can be called
C21_InterruptThenListen ==
    /\ [][\A sid \in Sessions :
            /\ (Tracked(sid) /\ enable_interruption /\ handle_interruption(sid))
                 => /\ sid \in DOMAIN conversations'
                    /\ conversations'[sid].interruption_count =
                           conversations[sid].interruption_count + 1
                    /\ conversations'[sid].state = "interrupted"
                    /\ GraceDelay(sid)'
            /\ \A t \in BagToSet(flow_tasks) :
                 (t.sid = sid /\ t.op = "handle_interruption" /\ Tracked(sid)
                    /\ handle_interruption_resume(t))
                 => /\ sid \in DOMAIN conversations'
                    /\ conversations'[sid].state = "listening"
                    /\ conversations'[sid].interruption_count =
                           conversations[sid].interruption_count]_vars
    /\ [](GraceDelay("s1")
            => ENABLED initialize_conversation("s2") /\ ENABLED end_conversation("s2"))
    /\ (Tracked("s1") /\ InterruptionPending)
          ~> (~Tracked("s1") \/ conversations["s1"].state = "listening")

\* the conversation was interrupted while it was interrupted, and the other
\* conversation was set up during the grace delay
C21_Witness ==
    /\ GraceDelay("s1")
    /\ Tracked("s1")
    /\ conversations["s1"].state = "interrupted"
    /\ conversations["s1"].interruption_count = 2
    /\ lastCall = Call("initialize_conversation", "s2", NoArg, "ok")

(* --------------------------- pipeline manager --------------------------- *)
\* the sum of the lengths of the chunks a buffer holds
RECURSIVE BytesOf(_)
BytesOf(chunks) == IF chunks = <<>> THEN 0 ELSE Len(Head(chunks)) + BytesOf(Tail(chunks))

\* the sessions of the pipeline manager
PipelineLive == DOMAIN pipeline_manager._sessions

\* C23: whatever the order in which process_audio_chunk and handle_interruption of the
\* pipeline run on a session, total_bytes of its buffer is the sum of the lengths of
\* the chunks it holds and the buffer holds no more than max_size chunks; right after
\* handle_interruption the buffer is empty and total_bytes is 0
C23_BufferConsistent ==
    /\ [](\A sid \in PipelineLive :
            LET buf == pipeline_manager._sessions[sid]
            IN  /\ buf.total_bytes = BytesOf(buf.chunks)
                /\ Len(buf.chunks) <= buf.max_size)
    /\ [][\A sid \in Sessions :
            (sid \in PipelineLive /\ pipeline_handle_interruption(sid))
            => /\ sid \in DOMAIN pipeline_manager'._sessions
               /\ pipeline_manager'._sessions[sid].chunks = <<>>
               /\ pipeline_manager'._sessions[sid].total_bytes = 0]_vars

\* chunks were processed after an interruption of a session whose buffer had been
\* full: the buffer holds the bytes of the chunk that arrived since
C23_Witness ==
    /\ "s1" \in PipelineLive
    /\ completed["s1"] = 3
    /\ lastCall = Call("process_audio_chunk", "s1", NoArg, "returned")
    /\ pipeline_manager._sessions["s1"].chunks = <<<<0, 1>>>>
    /\ pipeline_manager._sessions["s1"].max_size = 2
    /\ pipeline_manager._sessions["s1"].total_bytes = 2

\* C24: get_performance_summary changes nothing of the pipeline manager (buffers,
\* metrics, alerts); its active_sessions is the number of sessions initialized and not
\* cleaned up, its total_chunks_processed the number of process_audio_chunk calls
\* completed on them; and the count of a session never decreases while it lives
C24_SummaryIsSnapshot ==
    [][/\ get_performance_summary
          => /\ pipeline_manager' = pipeline_manager
             /\ summary'.active_sessions = Cardinality(DOMAIN completed)
             /\ summary'.total_chunks_processed = SumOver(completed, DOMAIN completed)
       /\ \A sid \in Sessions :
            (sid \in PipelineLive /\ sid \in DOMAIN pipeline_manager'._sessions
               /\ lastCall'.op # "initialize_session")
            => pipeline_manager'._metrics[sid].total_chunks_processed
                   >= pipeline_manager._metrics[sid].total_chunks_processed]_vars

\* a summary over two sessions, taken after one of them was interrupted with chunks
\* processed and an alert raised
C24_Witness ==
    /\ lastCall = Call("get_performance_summary", NoArg, NoArg, "returned")
    /\ summary = [active_sessions |-> 2, total_chunks_processed |-> 3, total_errors |-> 0]
    /\ PipelineLive = {"s1", "s2"}
    /\ completed["s1"] = 2
    /\ pipeline_manager._sessions["s1"].chunks = <<>>
    /\ pipeline_manager._performance_alerts # {}


(* ======================= properties: audio manager ===================== *)

\* C25: at most one input stream is open at any time, and it is the one the manager
\* holds; start_capture while capturing, for the same or for another session, changes
\* neither the manager (stream, callback) nor the device; after stop_capture no stream
\* is open and capture is off, and stop_capture while not capturing changes nothing
C25_OneCaptureStream ==
    /\ [](/\ Cardinality(sounddevice.streams) <= 1
          /\ sounddevice.streams \subseteq {audio_io_manager._input_stream})
    /\ [][/\ \A audio_callback \in Sessions :
               (audio_io_manager._is_capturing /\ start_capture(audio_callback))
               => /\ audio_io_manager' = audio_io_manager
                  /\ sounddevice' = sounddevice
          /\ stop_capture
               => /\ sounddevice'.streams = {}
                  /\ ~audio_io_manager'._is_capturing
                  /\ audio_io_manager'._input_stream = None
                  /\ (~audio_io_manager._is_capturing
                        => /\ audio_io_manager' = audio_io_manager
                           /\ sounddevice' = sounddevice)]_vars

\* capture was started for s1, stopped, started again for s1 and then requested for
\* s2: the second stream is the only one open and the callback is still that of s1
C25_Witness ==
    /\ lastCall = Call("start_capture", "s2", NoArg, "noop")
    /\ audio_io_manager._is_capturing
    /\ audio_io_manager._audio_callback = "s1"
    /\ audio_io_manager._input_stream = 2
    /\ sounddevice.streams = {2}
    /\ sounddevice.active = {2}


\* C26: at no time is more than one drain thread alive, whatever the sequence of
\* play_audio and stop_playback calls, a stop_playback whose join timed out included
C26_OneDrainThread == Cardinality(AliveThreads) <= 1


\* the chunks of a sequence of resampled blocks
ChunksOf(blocks) == {blocks[i].chunk : i \in DOMAIN blocks}

\* the chunks a drain thread has taken from the buffer and not yet handed to sd.play
TakenBy(t) == IF threads[t].pc \in {"l198", "l201"} THEN ChunksOf(threads[t].full_audio) ELSE {}

\* C27: with play_audio running against the drain thread and no stop_playback, every
\* chunk passed to play_audio is played exactly once and in the order of the calls:
\* what was played is in increasing order without repetition, and every chunk passed
\* has been played, is in the buffer or is held by the drain thread for playing
C27_PlayedOnceInOrder ==
    /\ \A i, j \in DOMAIN sounddevice.played :
         i < j => sounddevice.played[i].chunk < sounddevice.played[j].chunk
    /\ \A data \in ChunksOf([i \in DOMAIN enqueued |-> resample(enqueued[i])]) :
         \/ data \in ChunksOf(sounddevice.played)
         \/ data \in ChunksOf(audio_io_manager._audio_buffer)
         \/ \E t \in DOMAIN threads : data \in TakenBy(t)


(* ==================== properties: synthesis failure ==================== *)

\* the step passes a text to tts_manager.synthesize
SynthesisCall == Len(synthesized') = Len(synthesized) + 1

\* C28: when synthesize returns nothing for a segment, no exception ends the handler,
\* nothing is played for the segment, inside the loop the buffer is emptied and the
\* stream stays open for the fragments that follow, and no session is removed; a
\* segment synthesized later, like any other, is played
C28_SynthesisFailureSkipped ==
    [][/\ lastCall'.ret # "raised" /\ stream' # "failed"
       /\ (SynthesisCall /\ lastCall'.ret = "synthesis_failed")
            => /\ spoken' = spoken
               /\ _active_sessions' = _active_sessions
               /\ (\E chunk \in Fragments : agent_yields(chunk))
                    => text_buffer' = <<>> /\ stream' = "open"
       /\ (SynthesisCall /\ lastCall'.ret # "synthesis_failed")
            => spoken' = Append(spoken, <<"pcm", synthesized'[Len(synthesized')]>>)
       /\ ~SynthesisCall => spoken' = spoken]_vars

\* the synthesis of the first sentence of a response failed and the second sentence,
\* from the fragments that followed, was synthesized and played
C28_Witness ==
    /\ stream = "open"
    /\ Len(synthesized) = 2
    /\ spoken = <<<<"pcm", synthesized[2]>>>>
    /\ text_buffer = <<>>
    /\ lastCall = Call("_on_text_response", NoArg, NoArg, "synthesized")


(* ======================== properties: reconnection ===================== *)

\* the reconnection of t's session has used up its attempts
Exhausted(t) == reconnect_failed(t) /\ t.attempt = max_reconnect_attempts - 1

\* end_session has removed the session of t, or waits for its websocket to close
Ending(t) ==
    \/ t.sid \notin _sessions'
    \/ BagIn(RegTask("end_session", "close", t.sid, 0, "_handle_connection_error"), reg_tasks')

\* C29: a reconnection makes at most max_reconnect_attempts attempts; when an attempt
\* succeeds for a session that is registered, the session stays registered and its
\* client is connected for the listener that is started; when the last attempt fails
\* the session is ended and the error callback is invoked for it
C29_ReconnectOrErrorEvent ==
    [][\A t \in RegTaskSpace :
         /\ (BagIn(t, reg_tasks') /\ t.op = "reconnect")
              => t.attempt < max_reconnect_attempts
         /\ (reconnect_connected(t) /\ t.sid \in _sessions)
              => /\ t.sid \in _sessions'
                 /\ clients'[t.sid].ws /\ clients'[t.sid].is_connected
         /\ (Exhausted(t) /\ t.sid \in _sessions)
              => /\ Ending(t)
                 /\ error_calls'[t.sid] = error_calls[t.sid] + 1]_vars


(* ====================== properties: stale activity ===================== *)

\* end_conversation(sid) has completed: the session was removed from the registry and
\* is no longer active in the orchestrator
Ended(sid) == sid \in destroyed /\ sid \notin _active_sessions

\* C30: once end_conversation(id) has completed, the listener of id delivers no
\* response, no audio chunk captured for id is handed to the transport, and a response
\* in flight for id is neither synthesized, nor played, nor reported as a turn
C30_NoStaleActivity ==
    [][\A sid \in Sessions :
         Ended(sid)
         => /\ ~_handle_audio_response(sid)
            /\ send_audio_chunk(sid) => reg_tasks' = reg_tasks
            /\ response_for = sid
                 => /\ synthesized' = synthesized
                    /\ spoken' = spoken
                    /\ reported' = reported]_vars

(* ------------------- process_user_input while responding ---------------- *)
\* the turns after an interruption: the latest one is flagged if the assistant spoke it
Flagged(turns) ==
    [i \in 1..Len(turns) |->
        IF i = Len(turns) /\ turns[i].speaker = "assistant"
        THEN [turns[i] EXCEPT !.interrupted = TRUE] ELSE turns[i]]

\* process_user_input of the conversation is inside the handle_interruption it called
InterruptingInput(sid, u) == Task("process_user_input", "sleep316", sid, u, TRUE)

\* C31: with interruption enabled, process_user_input(sid, u) on a conversation that
\* is responding first interrupts it (the interruption counter grows by one, the
\* latest turn is flagged interrupted if the assistant spoke it, the state becomes
\* interrupted and no turn is added); when the grace delay is over it records
\* exactly one user turn, with the text u, and when its processing delay is over it
\* leaves the conversation, if still tracked, responding
C31_InterruptThenAccept ==
    [][\A sid \in Sessions :
        /\ \A u \in UserTexts :
             (/\ Tracked(sid) /\ conversations[sid].state = "responding"
              /\ enable_interruption /\ process_user_input(sid, u))
             => /\ sid \in DOMAIN conversations'
                /\ conversations'[sid].interruption_count =
                       conversations[sid].interruption_count + 1
                /\ conversations'[sid].turns = Flagged(conversations[sid].turns)
                /\ conversations'[sid].state = "interrupted"
                /\ flow_tasks' = Park(flow_tasks, InterruptingInput(sid, u))
        /\ \A u \in UserTexts :
             (BagIn(InterruptingInput(sid, u), flow_tasks)
                /\ process_user_input_after_interruption(InterruptingInput(sid, u)))
             => /\ Tracked(sid) /\ sid \in DOMAIN conversations'
                /\ conversations'[sid].turns =
                       Append(conversations[sid].turns,
                              ConversationTurn(<<sid, Len(conversations[sid].turns)>>,
                                               "user", u))
                /\ conversations'[sid].interruption_count =
                       conversations[sid].interruption_count
                /\ conversations'[sid].state = "processing"
                /\ flow_tasks' = Park(Unpark(flow_tasks, InterruptingInput(sid, u)),
                                      SleepingInput(sid))
        /\ (Tracked(sid) /\ BagIn(SleepingInput(sid), flow_tasks)
              /\ process_user_input_resume(SleepingInput(sid)))
             => /\ sid \in DOMAIN conversations'
                /\ conversations'[sid].state = "responding"
                /\ conversations'[sid].turns = conversations[sid].turns
                /\ conversations'[sid].interruption_count =
                       conversations[sid].interruption_count]_vars

\* C31 witness: the input that arrived while the conversation was responding has
\* interrupted the assistant's turn and has been recorded after it
C31_Witness ==
    /\ lastCall = Call("process_user_input", "s1", NoArg, "accepted")
    /\ Tracked("s1")
    /\ conversations["s1"].state = "processing"
    /\ conversations["s1"].interruption_count = 1
    /\ Len(conversations["s1"].turns) = 3
    /\ conversations["s1"].turns[2].speaker = "assistant"
    /\ conversations["s1"].turns[2].interrupted
    /\ conversations["s1"].turns[3].speaker = "user"

(* ------------------------------ max_turns ------------------------------- *)
\* C32: no tracked conversation holds more than max_turns turns
C32_NeverOverMaxTurns ==
    \A sid \in DOMAIN conversations : Len(conversations[sid].turns) <= max_turns

(* ======================= properties: turn events ======================= *)
\* the text the step passes to tts_manager.synthesize
FlushedText == synthesized'[Len(synthesized')]

\* C33: every step that flushes the response buffer, inside the loop or after it,
\* passes exactly one agent turn with the flushed text to the conversation-turn
\* callback and, while the stream goes on, leaves the buffer empty, whatever
\* synthesize returned
C33_FlushEmitsTurn ==
    [][SynthesisCall
         => /\ reported' = Append(reported, FlushedText)
            /\ (stream' = "open" => text_buffer' = <<>>)]_vars

(* ===================== properties: stopping playback =================== *)

\* C34: once stop_playback has returned, and until play_audio is called again, the
\* playback buffer is empty, nothing more is handed to the sound device and every
\* drain thread ends; stop_playback and shutdown can be called whenever the event
\* loop is in no method of the manager, whatever is playing or capturing, and return
C34_StopPlaybackDrains ==
    /\ [](stopped => audio_io_manager._audio_buffer = <<>>)
    /\ [][stopped => sounddevice'.played = sounddevice.played]_vars
    /\ stopped ~> (~stopped \/ AliveThreads = {})
    /\ [](io_call = Idle => ENABLED stop_playback /\ ENABLED shutdown)
    /\ (io_call.op = "stop_playback") ~> (io_call = Idle)

(* ========================= properties: barge-in ======================== *)

\* interrupt_conversation(sid) takes effect: the flow manager handles the interruption
Interrupts(sid) ==
    interrupt_conversation(sid) /\ lastCall' = Call("interrupt_conversation", sid, NoArg, "suspended")

\* the agent's response to a transcript of the session is in flight
InFlight(sid) == response_for = sid /\ stream = "open"

\* C35: an interruption of a session cuts the assistant's output short: the audio
\* buffered for playback is discarded, and the response in flight for the session is
\* closed, so that none of its remaining fragments is synthesized or played
C35_InterruptionCutsOutput ==
    [][\A sid \in Sessions :
         Interrupts(sid)
           => /\ audio_io_manager'._audio_buffer = <<>>
              /\ InFlight(sid) => ~InFlight(sid)']_vars

(* ====================== properties: order of turns ===================== *)

\* C36: a transcript delivered for a conversation while an earlier one is still
\* waiting to be recorded (its process_user_input is in the grace delay of the
\* interruption it caused) is not recorded before it: user turns are appended in the
\* order in which the transcripts were delivered
C36_TurnsInOrderOfReceipt ==
    [][\A sid \in Sessions : \A t1 \in UserTexts :
         BagIn(InterruptingInput(sid, t1), flow_tasks)
           => \A t2 \in UserTexts :
                ~(/\ process_user_input(sid, t2)
                  /\ lastCall' = Call("process_user_input", sid, t2, "suspended"))]_vars

(* ====================== properties: gating of input ==================== *)

\* the handler is invoked with a transcript that the flow manager rejects
RejectedTranscript(sid) ==
    /\ sid \in _active_sessions
    /\ Tracked(sid)
    /\ RejectsInput(conversations[sid])
    /\ \E text \in UserTexts : _on_text_response(sid, text)

\* C37: a transcript that process_user_input rejects because of the state of the
\* conversation (no user turn is appended) is not reported as a user turn and is not
\* passed to the agent: no response stream is opened for it, so that nothing is
\* synthesized or played for it
C37_RejectedInputGoesNowhere ==
    [][\A sid \in Sessions :
         RejectedTranscript(sid)
           => /\ conversations' = conversations
              /\ reported_user' = reported_user
              /\ stream' \notin {"input", "open"}]_vars

(* ===================== properties: answered inputs ===================== *)

\* the handler has returned after the agent's response to an input that the flow
\* manager accepted, and the conversation is still responding
Answering ==
    /\ stream = "ended"
    /\ Tracked(response_for)
    /\ conversations[response_for].state = "responding"

\* the assistant's turn is the latest one and the conversation listens again, or the
\* conversation has ended
Answered ==
    \/ ~Tracked(response_for)
    \/ /\ conversations[response_for].state = "listening"
       /\ conversations[response_for].turns # <<>>
       /\ conversations[response_for].turns[Len(conversations[response_for].turns)].speaker
              = "assistant"

\* C38: once the agent's response to an accepted input has ended, the assistant's
\* turn is recorded and the conversation returns to listening, or is ended: it does
\* not stay responding for ever
C38_AcceptedInputAnswered == Answering ~> Answered


(* ------------------------------------------------------------------------ *)
\* no coroutine and no reaper step of the session is under way
Settled(sid) ==
    /\ \A t \in BagToSet(reg_tasks) : t.sid # sid
    /\ reaper.pc = "sleep"

\* C39: the application's session-ended callback (VoiceOrchestrator._on_session_ended)
\* is invoked exactly once for every session started through the orchestrator: never
\* more than once, and once when the session has ended -- by end_conversation, by the
\* reaper, or after reconnection has been given up.
C39_NotifiedExactlyOnce ==
    \A sid \in Sessions :
        /\ session_ended_calls[sid] <= 1
        /\ (sid \in destroyed /\ sid \notin _active_sessions /\ Settled(sid))
               => session_ended_calls[sid] = 1


(* ------------------------------------------------------------------------ *)
\* the started orchestrator, configured with one of the turn limits
TurnLimitInit ==
    /\ max_turns \in MaxTurnsChoices
    /\ enable_interruption = TRUE
    /\ conversations = <<>>
    /\ flow_tasks = EmptyBag
    /\ lastCall = Call("construct", NoArg, NoArg, "ok")
    /\ RegInit
    /\ AuxInit
    /\ max_concurrent_sessions = 1

\* one conversation is started, ended and reaped through the orchestrator while the
\* turns of the user and of the agent are passed to its flow manager
TurnLimitNext ==
    \/ start_conversation({"s1"})
    \/ OrchResume
    \/ VoiceOrchestrator_end_conversation("s1")
    \/ Background({"s1"})
    \/ \E u \in UserTexts : process_user_input("s1", u)
    \/ \E a \in AgentTexts : process_agent_response("s1", a)
    \/ handle_interruption("s1")
    \/ FlowResume

TurnLimitSpec == TurnLimitInit /\ [][TurnLimitNext]_vars

\* no operation is in progress: no coroutine is parked and the reaper sleeps
Quiescent ==
    /\ reg_tasks = EmptyBag
    /\ flow_tasks = EmptyBag
    /\ reaper.pc = "sleep"

\* the four views agree
SameViews ==
    /\ _sessions = _active_sessions
    /\ DOMAIN conversations = _active_sessions
    /\ pipeline_sessions = _active_sessions

\* C40: whenever no operation is in progress, the orchestrator's active set, the
\* registry's map, the flow manager's contexts and the pipeline manager's sessions hold
\* exactly the same ids.
C40_SameSessionViews == Quiescent => SameViews

====
